---- MODULE Spec2Model ----
(***************************************************************************)
(* Degree-plan generation engine of the UMD graduation planner             *)
(* (pages/api/generate-plan.ts): the request handler, the semester         *)
(* sequencer, the requirement-satisfaction check, the catalog lookups, the *)
(* greedy course placer and the plan assembly.                             *)
(***************************************************************************)
EXTENDS Integers, Sequences, FiniteSets, TLC

VARIABLES
    request,                \* req.body of the POST request
    pc,                     \* position of the handler
    response,               \* what the handler answered (status, data)
    startSemester,          \* parseSemester(startingSemester)
    targetSemester,         \* parseSemester(graduationTarget)
    semesters,              \* generateSemesterSequence: the list being built
    currentYear,            \* generateSemesterSequence: loop variable
    currentSeasonIndex,     \* generateSemesterSequence: loop variable (0-based)
    availableSemesters,     \* result of generateSemesterSequence
    allRequirements,        \* majors' categories followed by minors'
    satisfiedRequirements,  \* labels returned by checkSatisfiedRequirements
    remainingRequirements,  \* allRequirements filtered by satisfied labels
    toFetch,                \* Array.from(allRequiredCourses)
    fetchIdx,               \* fetchCourseInformation: index of the next lookup
    courseInfo,             \* fetchCourseInformation: id -> record
    plannedCourses,         \* planCourseSequence: placements so far
    completed,              \* planCourseSequence: running completed set
    semIdx,                 \* planCourseSequence: index of the current semester
    reqIdx,                 \* planCourseSequence: index of the current category
    courseIdx,              \* planCourseSequence: index in the category's list
    currentCredits,         \* planCourseSequence: credits placed in this term
    lookups,                \* history: id -> outcome of its catalog lookup
    deferred,               \* history: courses the capacity break passed over
    run,                    \* number of the invocation of the handler
    pastRuns,               \* history: the invocations that are over
    other,                  \* a second invocation, suspended at an await
    exportRequest,          \* req.body of the POST request to export-plan
    exportData,             \* export-plan: the text generateCSV returned
    courseCache,            \* courses/[courseId]: the module's Map id -> entry
    now,                    \* Date.now()
    lookup,                 \* courses/[courseId]: the invocations of its handler
    selectedMajors,         \* MajorSelector: the prop selectedMajors
    selectedMinors,         \* MajorSelector: the prop selectedMinors
    gradPlan,               \* GradPlan: the state plan
    editable,               \* GradPlan: the prop editable
    inputCourses,           \* CourseInput: the prop completedCourses
    bulk                    \* CourseInput: the processBulkInput call in flight

vars == <<request, pc, response, startSemester, targetSemester, semesters,
          currentYear, currentSeasonIndex, availableSemesters, allRequirements,
          satisfiedRequirements, remainingRequirements, toFetch, fetchIdx,
          courseInfo, plannedCourses, completed, semIdx, reqIdx, courseIdx,
          currentCredits, lookups, deferred, run, pastRuns, other,
          exportRequest,
          exportData, courseCache, now, lookup, selectedMajors, selectedMinors,
          gradPlan, editable, inputCourses, bulk>>

\* the state of the course cache and of the components of the page
elsewhere == <<courseCache, now, lookup, selectedMajors, selectedMinors,
               gradPlan, editable, inputCourses, bulk>>

\* what no step of one invocation of generate-plan touches
aside == <<run, pastRuns, other, exportRequest, exportData, elsewhere>>

(***************************************************************************)
(* Bounds of the model                                                     *)
(***************************************************************************)
MaxCompleted == 1       \* completed courses of a request
MaxHorizon == 2         \* terms from the start term to the latest target
YearSpan == 2           \* years after StartYear the sequencer is tried on
MaxTicks == 4           \* quarters of an hour the clock of the course cache runs
StartYear == 2024
CourseIds == {"MATH140", "MATH141"}       \* courses requirement lists name
PrereqOnlyIds == {"MATH115"}              \* named by catalog prerequisites only
Labels == {"core", "elective"}
CatalogCredits == {1, 3}
CompletedCredits == {3}
Caps == {0, 3}
HeavyCredits == {3, 12}                   \* catalog credits tried with LoadCaps
LoadCaps == {12, 13}                      \* caps at and above the full-time load
SeasonWords == {"Spring", "Summer", "Fall"}

\* a category of a major lists up to as many identifiers as there are courses
MaxList == Cardinality(CourseIds)

SeqsUpTo(S, n) == UNION {[1..k -> S] : k \in 0..n}

Range(s) == {s[i] : i \in DOMAIN s}

RECURSIVE SumSeq(_)
SumSeq(s) == IF s = <<>> THEN 0 ELSE s[1] + SumSeq(Tail(s))

RECURSIVE Flatten(_)
Flatten(ss) == IF ss = <<>> THEN <<>> ELSE ss[1] \o Flatten(Tail(ss))

(***************************************************************************)
(* Semester strings "Fall 2024": a word and the decimal digits of a year   *)
(***************************************************************************)
RECURSIVE Digits(_)
Digits(n) == IF n < 10 THEN <<n>> ELSE Append(Digits(n \div 10), n % 10)

SemesterString(word, year) == [word |-> word, digits |-> Digits(year)]

RECURSIVE parseInt(_)
parseInt(ds) ==
    IF Len(ds) = 1 THEN ds[1]
    ELSE 10 * parseInt(SubSeq(ds, 1, Len(ds) - 1)) + ds[Len(ds)]

toLowerCase(word) ==
    CASE word = "Spring" -> "spring"
      [] word = "Summer" -> "summer"
      [] word = "Fall" -> "fall"
      [] OTHER -> word

parseSemester(semesterString) ==
    [season |-> toLowerCase(semesterString.word),
     year |-> parseInt(semesterString.digits)]

(***************************************************************************)
(* generateSemesterSequence                                                *)
(***************************************************************************)
seasons == <<"spring", "summer", "fall">>

\* Array.prototype.indexOf: 0-based position, -1 when absent
indexOf(arr, x) ==
    IF \E i \in DOMAIN arr : arr[i] = x
    THEN (CHOOSE i \in DOMAIN arr : arr[i] = x /\ \A j \in 1..(i - 1) : arr[j] # x) - 1
    ELSE -1

\* the loop with the target's season compared by < : the target term is left out
SeqLoopCondExclusive ==
    \/ currentYear < targetSemester.year
    \/ /\ currentYear = targetSemester.year
       /\ currentSeasonIndex < indexOf(seasons, targetSemester.season)

SeqLoopCond ==
    \/ currentYear < targetSemester.year
    \/ /\ currentYear = targetSemester.year
       /\ currentSeasonIndex <= indexOf(seasons, targetSemester.season)


SeqStep ==
    /\ pc = "sequence"
    /\ SeqLoopCond
    /\ semesters' = Append(semesters,
                           [season |-> seasons[currentSeasonIndex + 1],
                            year |-> currentYear])
    /\ IF currentSeasonIndex + 1 >= Len(seasons)
       THEN currentSeasonIndex' = 0 /\ currentYear' = currentYear + 1
       ELSE currentSeasonIndex' = currentSeasonIndex + 1 /\ UNCHANGED currentYear
    /\ UNCHANGED <<request, pc, response, startSemester, targetSemester,
                   availableSemesters, allRequirements, satisfiedRequirements,
                   remainingRequirements, toFetch, fetchIdx, courseInfo,
                   plannedCourses, completed, semIdx, reqIdx, courseIdx,
                   currentCredits>>
    /\ UNCHANGED <<lookups, deferred, aside>>

SeqReturn ==
    /\ pc = "sequence"
    /\ ~SeqLoopCond
    /\ availableSemesters' = semesters
    /\ pc' = "collect"
    /\ UNCHANGED <<request, response, startSemester, targetSemester, semesters,
                   currentYear, currentSeasonIndex, allRequirements,
                   satisfiedRequirements, remainingRequirements, toFetch,
                   fetchIdx, courseInfo, plannedCourses, completed, semIdx,
                   reqIdx, courseIdx, currentCredits>>
    /\ UNCHANGED <<lookups, deferred, aside>>

(***************************************************************************)
(* checkSatisfiedRequirements and the collection of the courses to look up *)
(***************************************************************************)
\* the check without requiredCourses.length > 0
RECURSIVE checkSatisfiedAnyLength(_, _)
checkSatisfiedAnyLength(requirements, completedCourses) ==
    IF requirements = <<>> THEN <<>>
    ELSE LET completedCourseIds == {c.course_id : c \in Range(completedCourses)}
             req == requirements[Len(requirements)]
             rest == checkSatisfiedAnyLength(
                         SubSeq(requirements, 1, Len(requirements) - 1),
                         completedCourses)
             hasAllRequired == \A i \in DOMAIN req.courses :
                                   req.courses[i] \in completedCourseIds
         IN  IF hasAllRequired THEN Append(rest, req.category) ELSE rest

RECURSIVE checkSatisfiedRequirements(_, _)
checkSatisfiedRequirements(requirements, completedCourses) ==
    IF requirements = <<>> THEN <<>>
    ELSE LET completedCourseIds == {c.course_id : c \in Range(completedCourses)}
             req == requirements[Len(requirements)]
             rest == checkSatisfiedRequirements(
                         SubSeq(requirements, 1, Len(requirements) - 1),
                         completedCourses)
             hasAllRequired == \A i \in DOMAIN req.courses :
                                   req.courses[i] \in completedCourseIds
         IN  IF hasAllRequired /\ Len(req.courses) > 0
             THEN Append(rest, req.category)
             ELSE rest

includes(arr, x) == \E i \in DOMAIN arr : arr[i] = x

filterRemaining(requirements, satisfied) ==
    SelectSeq(requirements, LAMBDA req : ~includes(satisfied, req.category))

\* Set.add in iteration order, Array.from keeps the insertion order
RECURSIVE addAll(_, _)
addAll(acc, ids) ==
    IF ids = <<>> THEN acc
    ELSE addAll(IF includes(acc, ids[1]) THEN acc ELSE Append(acc, ids[1]),
                Tail(ids))

RECURSIVE collectRequiredCourses(_, _)
collectRequiredCourses(acc, requirements) ==
    IF requirements = <<>> THEN acc
    ELSE collectRequiredCourses(addAll(acc, requirements[1].courses),
                                Tail(requirements))

(***************************************************************************)
(* planCourseSequence: the position of the three nested loops              *)
(***************************************************************************)
NoPos == <<0, 0, 0>>

PosLess(p, q) ==
    \/ p[1] < q[1]
    \/ p[1] = q[1] /\ p[2] < q[2]
    \/ p[1] = q[1] /\ p[2] = q[2] /\ p[3] < q[3]

\* the first course visit after position p, NoPos when the loops are over:
\* the next course of the category, else the first course of the next
\* category that lists any, else that of the first such category in the
\* next term
NextPos(reqs, sems, p) ==
    LET nonEmpty == {r \in DOMAIN reqs : Len(reqs[r].courses) > 0}
        min(S) == CHOOSE r \in S : \A q \in S : r <= q
        laterReqs == {r \in nonEmpty : r > p[2]}
    IN  IF p[1] > Len(sems) THEN NoPos
        ELSE IF p[2] \in DOMAIN reqs /\ p[3] < Len(reqs[p[2]].courses)
        THEN <<p[1], p[2], p[3] + 1>>
        ELSE IF laterReqs # {} THEN <<p[1], min(laterReqs), 1>>
        ELSE IF p[1] < Len(sems) /\ nonEmpty # {} THEN <<p[1] + 1, min(nonEmpty), 1>>
        ELSE NoPos

\* planCourseSequence with a completed set that outlives the invocation
EnterPlanKeepsCompleted(reqs) ==
    LET first == NextPos(reqs, availableSemesters, <<1, 1, 0>>)
    IN  /\ plannedCourses' = <<>>
        /\ completed' = completed \cup
                            {c.course_id : c \in Range(request.completedCourses)}
        /\ semIdx' = first[1]
        /\ reqIdx' = first[2]
        /\ courseIdx' = first[3]
        /\ currentCredits' = 0
        /\ pc' = IF first = NoPos THEN "assemble" ELSE "plan"

\* enter planCourseSequence with the requirements reqs
EnterPlan(reqs) ==
    LET first == NextPos(reqs, availableSemesters, <<1, 1, 0>>)
    IN  /\ plannedCourses' = <<>>
        /\ completed' = {c.course_id : c \in Range(request.completedCourses)}
        /\ semIdx' = first[1]
        /\ reqIdx' = first[2]
        /\ courseIdx' = first[3]
        /\ currentCredits' = 0
        /\ pc' = IF first = NoPos THEN "assemble" ELSE "plan"

Collect ==
    /\ pc = "collect"
    /\ LET all == Flatten([i \in DOMAIN request.majors |->
                              request.majors[i].requirements])
                  \o Flatten([i \in DOMAIN request.minors |->
                                 request.minors[i].requirements])
           satisfied == checkSatisfiedRequirements(all, request.completedCourses)
           remaining == filterRemaining(all, satisfied)
           required == collectRequiredCourses(<<>>, remaining)
       IN  /\ allRequirements' = all
           /\ satisfiedRequirements' = satisfied
           /\ remainingRequirements' = remaining
           /\ toFetch' = required
           /\ fetchIdx' = 1
           /\ courseInfo' = [c \in {} |-> 0]
           /\ IF required = <<>>
              THEN EnterPlan(remaining)
              ELSE /\ pc' = "fetch"
                   /\ UNCHANGED <<plannedCourses, completed, semIdx, reqIdx,
                                  courseIdx, currentCredits>>
    /\ UNCHANGED <<request, response, startSemester, targetSemester, semesters,
                   currentYear, currentSeasonIndex, availableSemesters>>
    /\ UNCHANGED <<lookups, deferred, aside>>

(***************************************************************************)
(* fetchCourseInformation: one catalog lookup per action                   *)
(***************************************************************************)
put(info, id, rec) ==
    [c \in DOMAIN info \cup {id} |-> IF c = id THEN rec ELSE info[c]]

\* parseInt(course.credits) || 3 ; 0 stands for a missing or non-numeric value
creditsOrDefault(raw) == IF raw = 0 THEN 3 ELSE raw

catalogRecord(courseId, rawCredits, prereqs) ==
    [course_id |-> courseId, name |-> "catalog name",
     credits |-> creditsOrDefault(rawCredits), prerequisites |-> prereqs]

stubRecord(courseId) ==
    [course_id |-> courseId, name |-> courseId, credits |-> 3,
     prerequisites |-> <<>>]

\* the loop of fetchCourseInformation moves on; after the last lookup the
\* caller goes on with planCourseSequence
FetchAdvance ==
    /\ fetchIdx' = fetchIdx + 1
    /\ IF fetchIdx = Len(toFetch)
       THEN EnterPlan(remainingRequirements)
       ELSE UNCHANGED <<pc, plannedCourses, completed, semIdx, reqIdx,
                        courseIdx, currentCredits>>
    /\ UNCHANGED <<request, response, startSemester, targetSemester, semesters,
                   currentYear, currentSeasonIndex, availableSemesters,
                   allRequirements, satisfiedRequirements,
                   remainingRequirements, toFetch>>
    /\ UNCHANGED <<deferred, aside>>

\* relationships.prereqs of a catalog entry names no course or another course
PrereqLists(courseId) ==
    {<<>>} \cup {<<c>> : c \in (CourseIds \cup PrereqOnlyIds) \ {courseId}}

\* the credits field of the catalog entries tried: small values, and 0 for
\* an entry without usable credits; for a request whose cap reaches the
\* full-time load, values that fill a term to 12 credits and more
RawCredits ==
    IF request.maxCreditsPerSemester >= 12 THEN HeavyCredits
    ELSE CatalogCredits \cup {0}

\* response.ok and a non-empty array
FetchOk ==
    /\ pc = "fetch"
    /\ \E rawCredits \in RawCredits,
          prereqs \in PrereqLists(toFetch[fetchIdx]) :
          /\ courseInfo' = put(courseInfo, toFetch[fetchIdx],
                               catalogRecord(toFetch[fetchIdx], rawCredits, prereqs))
          /\ lookups' = put(lookups, toFetch[fetchIdx],
                            [outcome |-> "record",
                             credits |-> creditsOrDefault(rawCredits),
                             prereqs |-> prereqs])
    /\ FetchAdvance

\* response not ok, or the body is not a non-empty array: nothing is stored
FetchNoRecord ==
    /\ pc = "fetch"
    /\ courseInfo' = courseInfo
    /\ lookups' = put(lookups, toFetch[fetchIdx], [outcome |-> "no record"])
    /\ FetchAdvance

\* the lookup's exception is not caught inside the loop: it reaches the
\* handler's catch, which answers 500
FetchThrowUncaught ==
    /\ pc = "fetch"
    /\ response' = [status |-> 500, success |-> FALSE, data |-> <<>>]
    /\ pc' = "done"
    /\ UNCHANGED <<request, startSemester, targetSemester, semesters,
                   currentYear, currentSeasonIndex, availableSemesters,
                   allRequirements, satisfiedRequirements,
                   remainingRequirements, toFetch, fetchIdx, courseInfo,
                   plannedCourses, completed, semIdx, reqIdx, courseIdx,
                   currentCredits>>
    /\ UNCHANGED <<lookups, deferred, aside>>

\* fetch or response.json() throws: the catch block stores the fallback
FetchThrow ==
    /\ pc = "fetch"
    /\ courseInfo' = put(courseInfo, toFetch[fetchIdx], stubRecord(toFetch[fetchIdx]))
    /\ lookups' = put(lookups, toFetch[fetchIdx], [outcome |-> "exception"])
    /\ FetchAdvance

(***************************************************************************)
(* planCourseSequence: one visit of the innermost loop per action          *)
(***************************************************************************)
curReq == remainingRequirements[reqIdx]
curCourse == curReq.courses[courseIdx]
curSemester == availableSemesters[semIdx]
semesterKey(sem) == <<sem.season, sem.year>>
maxCreditsPerSemester == request.maxCreditsPerSemester

\* prerequisites counted only when the request lists them as completed
prereqsSatisfiedInitially(course, done) ==
    \A i \in DOMAIN course.prerequisites :
        course.prerequisites[i]
            \in {c.course_id : c \in Range(request.completedCourses)}

prereqsSatisfied(course, done) ==
    \A i \in DOMAIN course.prerequisites : course.prerequisites[i] \in done

\* go on with the visit that follows position p; credits is the running
\* total of the current term after this visit
Advance(p, credits) ==
    LET next == NextPos(remainingRequirements, availableSemesters, p)
    IN  /\ semIdx' = next[1]
        /\ reqIdx' = next[2]
        /\ courseIdx' = next[3]
        /\ currentCredits' = IF next[1] = semIdx THEN credits ELSE 0
        /\ pc' = IF next = NoPos THEN "assemble" ELSE "plan"

PlanFrame ==
    UNCHANGED <<request, response, startSemester, targetSemester, semesters,
                currentYear, currentSeasonIndex, availableSemesters,
                allRequirements, satisfiedRequirements, remainingRequirements,
                toFetch, fetchIdx, courseInfo, lookups, aside>>

\* if (completed.has(courseId)) continue
SkipCompleted ==
    /\ pc = "plan"
    /\ curCourse \in completed
    /\ Advance(<<semIdx, reqIdx, courseIdx>>, currentCredits)
    /\ UNCHANGED <<plannedCourses, completed, deferred>>
    /\ PlanFrame

\* if (currentCredits >= maxCreditsPerSemester) break
BreakCapacity ==
    /\ pc = "plan"
    /\ curCourse \notin completed
    /\ currentCredits >= maxCreditsPerSemester
    /\ Advance(<<semIdx, reqIdx, MaxList>>, currentCredits)
    /\ deferred' = deferred \cup
           ({curReq.courses[k] : k \in courseIdx..Len(curReq.courses)} \ completed)
    /\ UNCHANGED <<plannedCourses, completed>>
    /\ PlanFrame

\* if (!course) continue
SkipNoRecord ==
    /\ pc = "plan"
    /\ curCourse \notin completed
    /\ currentCredits < maxCreditsPerSemester
    /\ curCourse \notin DOMAIN courseInfo
    /\ Advance(<<semIdx, reqIdx, courseIdx>>, currentCredits)
    /\ UNCHANGED <<plannedCourses, completed, deferred>>
    /\ PlanFrame

\* prereqsSatisfied is false: the course is left for a later term
SkipPrereqs ==
    /\ pc = "plan"
    /\ curCourse \notin completed
    /\ currentCredits < maxCreditsPerSemester
    /\ curCourse \in DOMAIN courseInfo
    /\ ~prereqsSatisfied(courseInfo[curCourse], completed)
    /\ Advance(<<semIdx, reqIdx, courseIdx>>, currentCredits)
    /\ UNCHANGED <<plannedCourses, completed, deferred>>
    /\ PlanFrame

\* the visit that places a course without completed.add(courseId)
PlaceCourseForgets ==
    /\ pc = "plan"
    /\ curCourse \notin completed
    /\ currentCredits < maxCreditsPerSemester
    /\ curCourse \in DOMAIN courseInfo
    /\ prereqsSatisfied(courseInfo[curCourse], completed)
    /\ LET course == courseInfo[curCourse]
       IN  /\ plannedCourses' = Append(plannedCourses,
                  [course_id |-> curCourse, name |-> course.name,
                   credits |-> course.credits,
                   prerequisites |-> course.prerequisites,
                   satisfies |-> <<curReq.category>>,
                   plannedSemester |-> semesterKey(curSemester)])
           /\ completed' = completed
           /\ Advance(<<semIdx, reqIdx, courseIdx>>,
                      currentCredits + course.credits)
    /\ UNCHANGED deferred
    /\ PlanFrame

PlaceCourse ==
    /\ pc = "plan"
    /\ curCourse \notin completed
    /\ currentCredits < maxCreditsPerSemester
    /\ curCourse \in DOMAIN courseInfo
    /\ prereqsSatisfied(courseInfo[curCourse], completed)
    /\ LET course == courseInfo[curCourse]
       IN  /\ plannedCourses' = Append(plannedCourses,
                  [course_id |-> curCourse, name |-> course.name,
                   credits |-> course.credits,
                   prerequisites |-> course.prerequisites,
                   satisfies |-> <<curReq.category>>,
                   plannedSemester |-> semesterKey(curSemester)])
           /\ completed' = completed \cup {curCourse}
           /\ Advance(<<semIdx, reqIdx, courseIdx>>,
                      currentCredits + course.credits)
    /\ UNCHANGED deferred
    /\ PlanFrame

(***************************************************************************)
(* Assembly of the plan (generateGraduationPlan, after the placer)         *)
(***************************************************************************)
plannedCourse(course) ==
    [course_id |-> course.course_id, name |-> course.name,
     credits |-> course.credits, prerequisites |-> course.prerequisites,
     satisfies |-> course.satisfies]

coursesOf(sem, courseSequence) ==
    LET mine == SelectSeq(courseSequence,
                          LAMBDA c : c.plannedSemester = semesterKey(sem))
    IN  [i \in DOMAIN mine |-> plannedCourse(mine[i])]

courseCredits(courses) == SumSeq([i \in DOMAIN courses |-> courses[i].credits])

buildSemesters(sems, courseSequence) ==
    [i \in DOMAIN sems |->
        [semester |-> sems[i].season, year |-> sems[i].year,
         courses |-> coursesOf(sems[i], courseSequence),
         totalCredits |-> courseCredits(coursesOf(sems[i], courseSequence))]]

FullTimeCredits == 12

\* the overload warning given already when the total reaches the cap
RECURSIVE generateWarningsAtCap(_, _)
generateWarningsAtCap(sems, cap) ==
    IF sems = <<>> THEN <<>>
    ELSE LET sem == sems[1]
             over == IF sem.totalCredits >= cap
                     THEN <<[kind |-> "Overloaded", semester |-> sem.semester,
                             year |-> sem.year, credits |-> sem.totalCredits]>>
                     ELSE <<>>
             under == IF sem.totalCredits < FullTimeCredits /\ Len(sem.courses) > 0
                      THEN <<[kind |-> "Under full-time status",
                              semester |-> sem.semester, year |-> sem.year,
                              credits |-> sem.totalCredits]>>
                      ELSE <<>>
         IN  over \o under \o generateWarningsAtCap(Tail(sems), cap)

RECURSIVE generateWarnings(_, _)
generateWarnings(sems, cap) ==
    IF sems = <<>> THEN <<>>
    ELSE LET sem == sems[1]
             over == IF sem.totalCredits > cap
                     THEN <<[kind |-> "Overloaded", semester |-> sem.semester,
                             year |-> sem.year, credits |-> sem.totalCredits]>>
                     ELSE <<>>
             under == IF sem.totalCredits < FullTimeCredits /\ Len(sem.courses) > 0
                      THEN <<[kind |-> "Under full-time status",
                              semester |-> sem.semester, year |-> sem.year,
                              credits |-> sem.totalCredits]>>
                      ELSE <<>>
         IN  over \o under \o generateWarnings(Tail(sems), cap)

RECURSIVE findUnmetRequirements(_, _)
findUnmetRequirements(requirements, planned) ==
    IF requirements = <<>> THEN <<>>
    ELSE LET plannedCourseIds == {c.course_id : c \in Range(planned)}
             req == requirements[1]
             hasRequiredCourse == \E i \in DOMAIN req.courses :
                                      req.courses[i] \in plannedCourseIds
         IN  (IF hasRequiredCourse THEN <<>> ELSE <<req.category>>)
             \o findUnmetRequirements(Tail(requirements), planned)

\* the aggregate without the completed courses' credits
planTotalCreditsPlacedOnly(sems, completedCourses) ==
    SumSeq([i \in DOMAIN sems |-> sems[i].totalCredits])

planTotalCredits(sems, completedCourses) ==
    SumSeq([i \in DOMAIN sems |-> sems[i].totalCredits])
    + SumSeq([i \in DOMAIN completedCourses |-> completedCourses[i].credits])

\* the plan with every term of the horizon returned, the empty ones too
graduationPlanZeroFilled ==
    LET sems == buildSemesters(availableSemesters, plannedCourses)
    IN  [majors |-> request.majors,
         minors |-> request.minors,
         semesters |-> sems,
         totalCredits |-> planTotalCredits(sems, request.completedCourses),
         completionDate |-> request.graduationTarget,
         warnings |-> generateWarnings(sems, maxCreditsPerSemester),
         unmetRequirements |-> findUnmetRequirements(allRequirements,
                                                     plannedCourses)]

graduationPlan ==
    LET sems == buildSemesters(availableSemesters, plannedCourses)
    IN  [majors |-> request.majors,
         minors |-> request.minors,
         semesters |-> SelectSeq(sems, LAMBDA sem : Len(sem.courses) > 0),
         totalCredits |-> planTotalCredits(sems, request.completedCourses),
         completionDate |-> request.graduationTarget,
         warnings |-> generateWarnings(sems, maxCreditsPerSemester),
         unmetRequirements |-> findUnmetRequirements(allRequirements,
                                                     plannedCourses)]

NoResponse == [status |-> 0, success |-> FALSE, data |-> <<>>]

\* the plan is assembled and the handler answers 200 with it
Assemble ==
    /\ pc = "assemble"
    /\ response' = [status |-> 200, success |-> TRUE, data |-> <<graduationPlan>>]
    /\ pc' = "done"
    /\ UNCHANGED <<request, startSemester, targetSemester, semesters,
                   currentYear, currentSeasonIndex, availableSemesters,
                   allRequirements, satisfiedRequirements,
                   remainingRequirements, toFetch, fetchIdx, courseInfo,
                   plannedCourses, completed, semIdx, reqIdx, courseIdx,
                   currentCredits>>
    /\ UNCHANGED <<lookups, deferred, aside>>

(***************************************************************************)
(* handler                                                                 *)
(***************************************************************************)
\* !requestData.majors || requestData.majors.length === 0
RejectNoMajors ==
    /\ pc = "handler"
    /\ Len(request.majors) = 0
    /\ response' = [status |-> 400, success |-> FALSE, data |-> <<>>]
    /\ pc' = "done"
    /\ UNCHANGED <<request, startSemester, targetSemester, semesters,
                   currentYear, currentSeasonIndex, availableSemesters,
                   allRequirements, satisfiedRequirements,
                   remainingRequirements, toFetch, fetchIdx, courseInfo,
                   plannedCourses, completed, semIdx, reqIdx, courseIdx,
                   currentCredits>>
    /\ UNCHANGED <<lookups, deferred, aside>>

\* generation is entered without the check of the majors list
StartGenerateUnchecked ==
    /\ pc = "handler"
    /\ startSemester' = parseSemester(request.startingSemester)
    /\ targetSemester' = parseSemester(request.graduationTarget)
    /\ semesters' = <<>>
    /\ currentYear' = parseSemester(request.startingSemester).year
    /\ currentSeasonIndex' =
           indexOf(seasons, parseSemester(request.startingSemester).season)
    /\ pc' = "sequence"
    /\ UNCHANGED <<request, response, availableSemesters, allRequirements,
                   satisfiedRequirements, remainingRequirements, toFetch,
                   fetchIdx, courseInfo, plannedCourses, completed, semIdx,
                   reqIdx, courseIdx, currentCredits>>
    /\ UNCHANGED <<lookups, deferred, aside>>

\* generateGraduationPlan is entered: both terms are parsed and the
\* sequencer's loop variables are set
StartGenerate ==
    /\ pc = "handler"
    /\ Len(request.majors) # 0
    /\ startSemester' = parseSemester(request.startingSemester)
    /\ targetSemester' = parseSemester(request.graduationTarget)
    /\ semesters' = <<>>
    /\ currentYear' = parseSemester(request.startingSemester).year
    /\ currentSeasonIndex' =
           indexOf(seasons, parseSemester(request.startingSemester).season)
    /\ pc' = "sequence"
    /\ UNCHANGED <<request, response, availableSemesters, allRequirements,
                   satisfiedRequirements, remainingRequirements, toFetch,
                   fetchIdx, courseInfo, plannedCourses, completed, semIdx,
                   reqIdx, courseIdx, currentCredits>>
    /\ UNCHANGED <<lookups, deferred, aside>>

(***************************************************************************)
(* pages/api/export-plan.ts.  A string is a sequence of characters; a run  *)
(* of characters none of which is a comma, a double quote or a line feed   *)
(* may be written as one element.                                          *)
(***************************************************************************)
Comma == ","
Quote == "\""
Newline == "\n"

RECURSIVE join(_, _)
join(parts, separator) ==
    IF parts = <<>> THEN <<>>
    ELSE IF Len(parts) = 1 THEN parts[1]
    ELSE parts[1] \o separator \o join(Tail(parts), separator)

DigitChars == <<"0", "1", "2", "3", "4", "5", "6", "7", "8", "9">>

\* Number.prototype.toString of a non-negative integer
toString(n) == [i \in DOMAIN Digits(n) |-> DigitChars[Digits(n)[i] + 1]]

\* value.replace(/"/g, '""')
RECURSIVE doubleQuotes(_)
doubleQuotes(value) ==
    IF value = <<>> THEN <<>>
    ELSE (IF Head(value) = Quote THEN <<Quote, Quote>> ELSE <<Head(value)>>)
         \o doubleQuotes(Tail(value))

needsQuoting(value) ==
    \E i \in DOMAIN value : value[i] \in {Comma, Quote, Newline}

\* the value is wrapped in quotes and its own quotes are left single
escapeCSVNoDoubling(value) ==
    IF value = <<>> THEN <<>>
    ELSE IF needsQuoting(value) THEN <<Quote>> \o value \o <<Quote>>
    ELSE value

escapeCSV(value) ==
    IF value = <<>> THEN <<>>
    ELSE IF needsQuoting(value) THEN <<Quote>> \o doubleQuotes(value) \o <<Quote>>
    ELSE value

headers(includeDetails) ==
    <<<<"Semester">>, <<"Year">>, <<"Course Code">>, <<"Course Name">>, <<"Credits">>>>
    \o (IF includeDetails
        THEN <<<<"Prerequisites">>, <<"Satisfies Requirements">>>>
        ELSE <<>>)

courseRow(semester, course, includeDetails) ==
    join(<<escapeCSV(semester.semester), toString(semester.year),
           escapeCSV(course.course_id), escapeCSV(course.name),
           toString(course.credits)>>
         \o (IF includeDetails
             THEN <<escapeCSV(join(course.prerequisites, <<"; ">>)),
                    escapeCSV(join(course.satisfies, <<"; ">>))>>
             ELSE <<>>),
         <<Comma>>)

\* the rows of one semester: its courses, its total, an empty row
semesterRows(semester, includeDetails) ==
    [k \in DOMAIN semester.courses |->
        courseRow(semester, semester.courses[k], includeDetails)]
    \o << <<"# ">> \o semester.semester \o <<" ">> \o toString(semester.year)
          \o <<" Total Credits:", Comma>> \o toString(semester.totalCredits),
          <<>> >>

namesLine(title, list) ==
    IF Len(list) > 0
    THEN << <<title>> \o join([i \in DOMAIN list |-> list[i].name], <<Comma, " ">>) >>
    ELSE <<>>

generateCSV(plan, includeDetails) ==
    join(<<join(headers(includeDetails), <<Comma>>),
           <<>>,
           <<"# Graduation Plan Summary">>,
           <<"# Total Credits: ">> \o toString(plan.totalCredits),
           <<"# Completion Date: ">> \o plan.completionDate>>
         \o namesLine("# Majors: ", plan.majors)
         \o namesLine("# Minors: ", plan.minors)
         \o << <<>>, join(headers(includeDetails), <<Comma>>) >>
         \o Flatten([i \in DOMAIN plan.semesters |->
                        semesterRows(plan.semesters[i], includeDetails)]),
         <<Newline>>)

NoExport == [status |-> 0, body |-> <<>>]

\* the variables of generate-plan other than the handler's position
engine ==
    <<request, response, startSemester, targetSemester, semesters, currentYear,
      currentSeasonIndex, availableSemesters, allRequirements,
      satisfiedRequirements, remainingRequirements, toFetch, fetchIdx,
      courseInfo, plannedCourses, completed, semIdx, reqIdx, courseIdx,
      currentCredits, lookups, deferred, run, pastRuns, other>>

\* what no step of export-plan touches
generation == <<engine, elsewhere>>

\* generate-plan and export-plan: what no step of the course cache or of a
\* component of the page touches
planApi == <<pc, engine, exportRequest, exportData>>

\* if (!graduationPlan) : 400
ExportNoPlan ==
    /\ pc = "export"
    /\ exportRequest[1].graduationPlan = <<>>
    /\ exportData' = [status |-> 400, body |-> <<>>]
    /\ pc' = "exported"
    /\ UNCHANGED <<generation, exportRequest>>

\* switch (format) default : 400
ExportUnsupported ==
    /\ pc = "export"
    /\ exportRequest[1].graduationPlan # <<>>
    /\ exportRequest[1].format # "csv"
    /\ exportData' = [status |-> 400, body |-> <<>>]
    /\ pc' = "exported"
    /\ UNCHANGED <<generation, exportRequest>>

\* case 'csv' : the text of generateCSV is sent with status 200
ExportCSV ==
    /\ pc = "export"
    /\ exportRequest[1].graduationPlan # <<>>
    /\ exportRequest[1].format = "csv"
    /\ exportData' = [status |-> 200,
                      body |-> generateCSV(exportRequest[1].graduationPlan[1],
                                           exportRequest[1].includeDetails)]
    /\ pc' = "exported"
    /\ UNCHANGED <<generation, exportRequest>>

(***************************************************************************)
(* Requests                                                                *)
(***************************************************************************)
MajorCategory == [category : Labels, courses : SeqsUpTo(CourseIds, MaxList)]
\* a minor's category lists no course or a single one
MinorCategory ==
    [category : Labels, courses : {<<>>} \cup {<<c>> : c \in CourseIds}]

\* a major or minor with no requirement category or with one
Major == {[requirements |-> <<>>]}
         \cup {[requirements |-> <<c>>] : c \in MajorCategory}
Minor == {[requirements |-> <<>>]}
         \cup {[requirements |-> <<c>>] : c \in MinorCategory}
CompletedCourse == [course_id : CourseIds, credits : CompletedCredits]

SeasonWordSeq == <<"Spring", "Summer", "Fall">>

\* the term k steps after "Fall StartYear" (k = -1: the term before it)
TermString(k) ==
    LET abs == StartYear * 3 + 2 + k
    IN  SemesterString(SeasonWordSeq[(abs % 3) + 1], abs \div 3)

Requests ==
    [majors : {<<>>} \cup {<<m>> : m \in Major},
     minors : {<<>>} \cup {<<m>> : m \in Minor},
     completedCourses : SeqsUpTo(CompletedCourse, MaxCompleted),
     startingSemester : {TermString(0)},
     graduationTarget : {TermString(k) : k \in (-1)..(MaxHorizon - 1)},
     maxCreditsPerSemester : Caps]

Blank ==
    /\ response = NoResponse
    /\ semesters = <<>>
    /\ availableSemesters = <<>>
    /\ allRequirements = <<>>
    /\ satisfiedRequirements = <<>>
    /\ remainingRequirements = <<>>
    /\ toFetch = <<>>
    /\ fetchIdx = 0
    /\ courseInfo = [c \in {} |-> 0]
    /\ plannedCourses = <<>>
    /\ completed = {}
    /\ semIdx = 0
    /\ reqIdx = 0
    /\ courseIdx = 0
    /\ currentCredits = 0
    /\ lookups = [c \in {} |-> 0]
    /\ deferred = {}

\* no request to courses/[courseId] and an empty cache
CacheIdle ==
    /\ courseCache = [c \in {} |-> 0]
    /\ now = 0
    /\ lookup = <<>>

\* MajorSelector with nothing selected
SelectorIdle ==
    /\ selectedMajors = <<>>
    /\ selectedMinors = <<>>

\* GradPlan without initialPlan
EditorIdle ==
    /\ gradPlan = [semesters |-> <<>>, totalCredits |-> 0]
    /\ editable = TRUE

\* CourseInput with no completed course and no import in flight
InputIdle ==
    /\ inputCourses = <<>>
    /\ bulk = <<>>

\* a single invocation of generate-plan, and no export
Alone ==
    /\ run = 1
    /\ pastRuns = <<>>
    /\ other = <<>>
    /\ exportRequest = <<>>
    /\ exportData = NoExport
    /\ CacheIdle
    /\ SelectorIdle
    /\ EditorIdle
    /\ InputIdle

\* no request to generate-plan or export-plan is being handled
NoGeneration ==
    /\ request = [majors |-> <<>>, minors |-> <<>>, completedCourses |-> <<>>,
                  startingSemester |-> TermString(0),
                  graduationTarget |-> TermString(0),
                  maxCreditsPerSemester |-> 3]
    /\ pc = "idle"
    /\ startSemester = [season |-> "", year |-> 0]
    /\ targetSemester = [season |-> "", year |-> 0]
    /\ currentYear = 0
    /\ currentSeasonIndex = 0
    /\ Blank
    /\ run = 1
    /\ pastRuns = <<>>
    /\ other = <<>>
    /\ exportRequest = <<>>
    /\ exportData = NoExport

Init ==
    /\ request \in Requests
    /\ pc = "handler"
    /\ startSemester = [season |-> "", year |-> 0]
    /\ targetSemester = [season |-> "", year |-> 0]
    /\ currentYear = 0
    /\ currentSeasonIndex = 0
    /\ Blank
    /\ Alone

Next ==
    \/ RejectNoMajors
    \/ StartGenerate
    \/ SeqStep
    \/ SeqReturn
    \/ Collect
    \/ FetchOk
    \/ FetchNoRecord
    \/ FetchThrow
    \/ SkipCompleted
    \/ BreakCapacity
    \/ SkipNoRecord
    \/ SkipPrereqs
    \/ PlaceCourse
    \/ Assemble

Spec == Init /\ [][Next]_vars

(***************************************************************************)
(* The sequencer on its own, for every pair of terms of the years tried    *)
(***************************************************************************)
SeqYears == StartYear..(StartYear + YearSpan)

SeqRequests ==
    [majors : {<<[requirements |-> <<>>]>>},
     minors : {<<>>},
     completedCourses : {<<>>},
     startingSemester : {SemesterString(w, y) : w \in SeasonWords, y \in SeqYears},
     graduationTarget : {SemesterString(w, y) : w \in SeasonWords, y \in SeqYears},
     maxCreditsPerSemester : {3}]

InitSeq ==
    /\ request \in SeqRequests
    /\ pc = "sequence"
    /\ startSemester = parseSemester(request.startingSemester)
    /\ targetSemester = parseSemester(request.graduationTarget)
    /\ currentYear = startSemester.year
    /\ currentSeasonIndex = indexOf(seasons, startSemester.season)
    /\ Blank
    /\ Alone

NextSeq == SeqStep \/ SeqReturn

SpecSeq == InitSeq /\ [][NextSeq]_vars

(***************************************************************************)
(* The handler invoked three times in a row: a request, any request, and   *)
(* the first request again.  The variables of an invocation keep the       *)
(* values the previous one left, until the code assigns them.              *)
(***************************************************************************)
OneCourseMajor(c) ==
    [requirements |-> <<[category |-> "core", courses |-> <<c>>]>>]

RunRequests ==
    [majors : {<<>>} \cup {<<OneCourseMajor(c)>> : c \in CourseIds},
     minors : {<<>>},
     completedCourses : {<<>>, <<[course_id |-> "MATH140", credits |-> 3]>>},
     startingSemester : {TermString(0)},
     graduationTarget : {TermString(1)},
     maxCreditsPerSemester : Caps]

InitRuns ==
    /\ request \in RunRequests
    /\ pc = "handler"
    /\ startSemester = [season |-> "", year |-> 0]
    /\ targetSemester = [season |-> "", year |-> 0]
    /\ currentYear = 0
    /\ currentSeasonIndex = 0
    /\ Blank
    /\ Alone

thisRun == [request |-> request, lookups |-> lookups, response |-> response]

\* the handler is called again: req and res are new objects, everything else
\* is whatever the module kept
NextInvocation ==
    /\ pc = "done"
    /\ run \in {1, 2}
    /\ run' = run + 1
    /\ pastRuns' = Append(pastRuns, thisRun)
    /\ request' \in (IF run = 1 THEN RunRequests ELSE {pastRuns[1].request})
    /\ response' = NoResponse
    /\ pc' = "handler"
    /\ lookups' = [c \in {} |-> 0]
    /\ deferred' = {}
    /\ UNCHANGED <<startSemester, targetSemester, semesters, currentYear,
                   currentSeasonIndex, availableSemesters, allRequirements,
                   satisfiedRequirements, remainingRequirements, toFetch,
                   fetchIdx, courseInfo, plannedCourses, completed, semIdx,
                   reqIdx, courseIdx, currentCredits, other, exportRequest,
                   exportData, elsewhere>>

NextRuns == Next \/ NextInvocation

SpecRuns == InitRuns /\ [][NextRuns]_vars

(***************************************************************************)
(* Two invocations in flight at once, after a first invocation that ran    *)
(* alone.  The code between two awaits runs without interruption, so the   *)
(* control passes from one invocation to the other only before it starts,  *)
(* while it awaits a catalog lookup, or when it is over.                   *)
(***************************************************************************)
\* the frame of the running invocation
frame ==
    [request |-> request,
     pc |-> pc,
     response |-> response,
     startSemester |-> startSemester,
     targetSemester |-> targetSemester,
     semesters |-> semesters,
     currentYear |-> currentYear,
     currentSeasonIndex |-> currentSeasonIndex,
     availableSemesters |-> availableSemesters,
     allRequirements |-> allRequirements,
     satisfiedRequirements |-> satisfiedRequirements,
     remainingRequirements |-> remainingRequirements,
     toFetch |-> toFetch,
     fetchIdx |-> fetchIdx,
     plannedCourses |-> plannedCourses,
     completed |-> completed,
     semIdx |-> semIdx,
     reqIdx |-> reqIdx,
     courseIdx |-> courseIdx,
     currentCredits |-> currentCredits,
     lookups |-> lookups,
     deferred |-> deferred,
     courseInfo |-> courseInfo]

\* the frame of an invocation that has not started
newFrame(req) ==
    [request |-> req,
     pc |-> "handler",
     response |-> NoResponse,
     startSemester |-> [season |-> "", year |-> 0],
     targetSemester |-> [season |-> "", year |-> 0],
     semesters |-> <<>>,
     currentYear |-> 0,
     currentSeasonIndex |-> 0,
     availableSemesters |-> <<>>,
     allRequirements |-> <<>>,
     satisfiedRequirements |-> <<>>,
     remainingRequirements |-> <<>>,
     toFetch |-> <<>>,
     fetchIdx |-> 0,
     plannedCourses |-> <<>>,
     completed |-> {},
     semIdx |-> 0,
     reqIdx |-> 0,
     courseIdx |-> 0,
     currentCredits |-> 0,
     lookups |-> [c \in {} |-> 0],
     deferred |-> {},
     courseInfo |-> [c \in {} |-> 0]]

\* the running invocation takes the frame inv
Resume(inv) ==
    /\ request' = inv.request
    /\ pc' = inv.pc
    /\ response' = inv.response
    /\ startSemester' = inv.startSemester
    /\ targetSemester' = inv.targetSemester
    /\ semesters' = inv.semesters
    /\ currentYear' = inv.currentYear
    /\ currentSeasonIndex' = inv.currentSeasonIndex
    /\ availableSemesters' = inv.availableSemesters
    /\ allRequirements' = inv.allRequirements
    /\ satisfiedRequirements' = inv.satisfiedRequirements
    /\ remainingRequirements' = inv.remainingRequirements
    /\ toFetch' = inv.toFetch
    /\ fetchIdx' = inv.fetchIdx
    /\ plannedCourses' = inv.plannedCourses
    /\ completed' = inv.completed
    /\ semIdx' = inv.semIdx
    /\ reqIdx' = inv.reqIdx
    /\ courseIdx' = inv.courseIdx
    /\ currentCredits' = inv.currentCredits
    /\ lookups' = inv.lookups
    /\ deferred' = inv.deferred

\* two requests arrive: any request, and the first request again
StartPair ==
    /\ pc = "done"
    /\ run = 1
    /\ run' = 2
    /\ pastRuns' = Append(pastRuns, thisRun)
    /\ other' = <<newFrame(request)>>
    /\ \E req \in RunRequests : Resume(newFrame(req))
    /\ courseInfo' = [c \in {} |-> 0]
    /\ UNCHANGED <<exportRequest, exportData, elsewhere>>

\* the control passes to the other invocation, which finds the Map of
\* fetchCourseInformation as the suspended one left it
SwitchSharedCatalog ==
    /\ other # <<>>
    /\ pc \in {"handler", "fetch", "done"}
    /\ other[1].pc # "done"
    /\ other' = <<frame>>
    /\ Resume(other[1])
    /\ courseInfo' = courseInfo
    /\ UNCHANGED <<run, pastRuns, exportRequest, exportData, elsewhere>>

\* the control passes to the other invocation
Switch ==
    /\ other # <<>>
    /\ pc \in {"handler", "fetch", "done"}
    /\ other[1].pc # "done"
    /\ other' = <<frame>>
    /\ Resume(other[1])
    /\ courseInfo' = other[1].courseInfo
    /\ UNCHANGED <<run, pastRuns, exportRequest, exportData, elsewhere>>

NextPair == Next \/ StartPair \/ Switch

SpecPair == InitRuns /\ [][NextPair]_vars

(***************************************************************************)
(* Export requests: plans of the shape generate-plan returns, with course  *)
(* ids made of a letter, commas, double quotes and line feeds               *)
(***************************************************************************)
MaxIdLength == 2        \* characters of a course id of an exported plan

ExportChars == {"A", Comma, Quote, Newline}
ExportIds == SeqsUpTo(ExportChars, MaxIdLength)
ExportNames == {<<"Calculus I">>, <<"A", Quote, Comma>>}

ExportCourse ==
    [course_id : ExportIds, name : ExportNames, credits : CatalogCredits,
     prerequisites : {<<>>, <<<<"B", Comma>>, <<"C">>>>},
     satisfies : {<<<<"core">>>>}]

PlainCourse ==
    [course_id |-> <<"B">>, name |-> <<"B">>, credits |-> 3,
     prerequisites |-> <<>>, satisfies |-> <<<<"core">>>>]

exportSemester(season, year, courses) ==
    [semester |-> <<season>>, year |-> year, courses |-> courses,
     totalCredits |-> courseCredits(courses)]

ExportSemesters ==
    UNION {{<<exportSemester("fall", StartYear, <<c>>)>>,
            <<exportSemester("fall", StartYear, <<c, PlainCourse>>)>>,
            <<exportSemester("fall", StartYear, <<PlainCourse, c>>)>>,
            <<exportSemester("fall", StartYear, <<c>>),
              exportSemester("spring", StartYear + 1, <<PlainCourse>>)>>}
           : c \in ExportCourse}

exportPlan(majors, sems) ==
    [majors |-> majors, minors |-> <<>>, semesters |-> sems,
     totalCredits |-> SumSeq([i \in DOMAIN sems |-> sems[i].totalCredits]),
     completionDate |-> <<"Spring 2025">>, warnings |-> <<>>,
     unmetRequirements |-> <<>>]

ExportPlans ==
    {exportPlan(majors, sems) :
        majors \in {<<>>, <<[name |-> <<"Government", Comma, " Politics">>],
                           [name |-> <<"Computer Science">>]>>},
        sems \in ExportSemesters}

ExportRequests ==
    [graduationPlan : {<<plan>> : plan \in ExportPlans},
     format : {"csv"}, includeDetails : BOOLEAN]
    \cup [graduationPlan : {<<>>}, format : {"csv"}, includeDetails : {TRUE}]
    \cup [graduationPlan : {<<exportPlan(<<>>, <<>>)>>}, format : {"xml"},
          includeDetails : {TRUE}]

InitExport ==
    /\ exportRequest \in {<<r>> : r \in ExportRequests}
    /\ exportData = NoExport
    /\ pc = "export"
    /\ request \in SeqRequests
    /\ request.startingSemester = TermString(0)
    /\ request.graduationTarget = TermString(0)
    /\ startSemester = [season |-> "", year |-> 0]
    /\ targetSemester = [season |-> "", year |-> 0]
    /\ currentYear = 0
    /\ currentSeasonIndex = 0
    /\ Blank
    /\ run = 1
    /\ pastRuns = <<>>
    /\ other = <<>>
    /\ CacheIdle
    /\ SelectorIdle
    /\ EditorIdle
    /\ InputIdle

NextExport == ExportNoPlan \/ ExportUnsupported \/ ExportCSV

SpecExport == InitExport /\ [][NextExport]_vars

(***************************************************************************)
(* Generation for requests whose cap is the full-time load or above, with  *)
(* catalog entries of 3 and 12 credits: terms of 12 credits and more       *)
(***************************************************************************)
LoadRequests ==
    [majors : {<<>>}
              \cup {<<[requirements |-> <<[category |-> "core", courses |-> cs]>>]>> :
                       cs \in {<<"MATH140">>, <<"MATH140", "MATH141">>}},
     minors : {<<>>},
     completedCourses : {<<>>},
     startingSemester : {TermString(0)},
     graduationTarget : {TermString(k) : k \in 0..(MaxHorizon - 1)},
     maxCreditsPerSemester : LoadCaps]

InitLoad ==
    /\ request \in LoadRequests
    /\ pc = "handler"
    /\ startSemester = [season |-> "", year |-> 0]
    /\ targetSemester = [season |-> "", year |-> 0]
    /\ currentYear = 0
    /\ currentSeasonIndex = 0
    /\ Blank
    /\ Alone

SpecLoad == InitLoad /\ [][Next]_vars

(***************************************************************************)
(* pages/api/courses/[courseId].ts: the handler and its cache.  Two        *)
(* invocations of the handler may be in flight; each is suspended only in  *)
(* await fetchCourseFromUMDAPI.  The clock advances between the steps, a   *)
(* quarter of an hour at a time.                                           *)
(***************************************************************************)
CACHE_DURATION == 1000 * 60 * 30

ClockStep == 1000 * 60 * 15

Handlers == {1, 2}

Versions == {"old", "new"}      \* what the UMD API may answer for a course

NoLookup == [pc |-> "idle"]

\* cached && Date.now() - cached.timestamp <= CACHE_DURATION
cachedIsFreshAtLimit(courseId) ==
    /\ courseId \in DOMAIN courseCache
    /\ now - courseCache[courseId].timestamp <= CACHE_DURATION

\* cached && Date.now() - cached.timestamp < CACHE_DURATION
cachedIsFresh(courseId) ==
    /\ courseId \in DOMAIN courseCache
    /\ now - courseCache[courseId].timestamp < CACHE_DURATION

cleanupCache(cache) ==
    LET keysToDelete == {key \in DOMAIN cache :
                            now - cache[key].timestamp > CACHE_DURATION}
    IN  [key \in (DOMAIN cache) \ keysToDelete |-> cache[key]]

CacheFrame == UNCHANGED <<planApi, selectedMajors, selectedMinors, gradPlan,
                          editable, inputCourses, bulk>>

Tick ==
    /\ now < MaxTicks * ClockStep
    /\ now' = now + ClockStep
    /\ UNCHANGED <<courseCache, lookup>>
    /\ CacheFrame

\* req.method !== 'GET'
Reject405(h) ==
    /\ lookup[h].pc # "fetching"
    /\ lookup' = [lookup EXCEPT ![h] = [pc |-> "done", status |-> 405]]
    /\ UNCHANGED <<courseCache, now>>
    /\ CacheFrame

\* !courseId || typeof courseId !== 'string'
Reject400(h) ==
    /\ lookup[h].pc # "fetching"
    /\ lookup' = [lookup EXCEPT ![h] = [pc |-> "done", status |-> 400]]
    /\ UNCHANGED <<courseCache, now>>
    /\ CacheFrame

\* the entry is fresh: it is returned
AnswerFromCache(h, courseId) ==
    /\ lookup[h].pc # "fetching"
    /\ cachedIsFresh(courseId)
    /\ lookup' = [lookup EXCEPT ![h] =
                      [pc |-> "done", status |-> 200, courseId |-> courseId,
                       data |-> courseCache[courseId].data, from |-> "cache"]]
    /\ UNCHANGED <<courseCache, now>>
    /\ CacheFrame

\* no fresh entry: the handler waits for fetchCourseFromUMDAPI
StartFetch(h, courseId) ==
    /\ lookup[h].pc # "fetching"
    /\ ~cachedIsFresh(courseId)
    /\ lookup' = [lookup EXCEPT ![h] = [pc |-> "fetching", courseId |-> courseId]]
    /\ UNCHANGED <<courseCache, now>>
    /\ CacheFrame

\* the fetch returned: the entry is set, the cache is cleaned up and the
\* course is answered
FetchReturns(h) ==
    /\ lookup[h].pc = "fetching"
    /\ \E version \in Versions :
          LET courseId == lookup[h].courseId
              courseInfoFetched == [course_id |-> courseId, version |-> version]
          IN  /\ courseCache' = cleanupCache(
                     put(courseCache, courseId,
                         [data |-> courseInfoFetched, timestamp |-> now]))
              /\ lookup' = [lookup EXCEPT ![h] =
                                [pc |-> "done", status |-> 200,
                                 courseId |-> courseId,
                                 data |-> courseInfoFetched, from |-> "fetch"]]
    /\ UNCHANGED now
    /\ CacheFrame

\* the fetch threw: 500, the cache is left as it is
FetchFails(h) ==
    /\ lookup[h].pc = "fetching"
    /\ lookup' = [lookup EXCEPT ![h] =
                      [pc |-> "done", status |-> 500,
                       courseId |-> lookup[h].courseId]]
    /\ UNCHANGED <<courseCache, now>>
    /\ CacheFrame

InitCache ==
    /\ NoGeneration
    /\ courseCache = [c \in {} |-> 0]
    /\ now = 0
    /\ lookup = [h \in Handlers |-> NoLookup]
    /\ SelectorIdle
    /\ EditorIdle
    /\ InputIdle

NextCache ==
    \/ Tick
    \/ \E h \in Handlers : Reject405(h)
    \/ \E h \in Handlers : Reject400(h)
    \/ \E h \in Handlers, courseId \in CourseIds : AnswerFromCache(h, courseId)
    \/ \E h \in Handlers, courseId \in CourseIds : StartFetch(h, courseId)
    \/ \E h \in Handlers : FetchReturns(h)
    \/ \E h \in Handlers : FetchFails(h)

SpecCache == InitCache /\ [][NextCache]_vars

(***************************************************************************)
(* app/components/MajorSelector.tsx.  The component is controlled: what    *)
(* it hands to onMajorsChange / onMinorsChange is the selectedMajors /     *)
(* selectedMinors of its next render.                                      *)
(***************************************************************************)
MajorNames == {"Computer Science", "Mathematics", "Physics", "Chemistry"}
MinorNames == {"Statistics", "Business", "Mathematics", "Philosophy"}

\* selected.find(m => m.name === name)
find(selected, name) == \E i \in DOMAIN selected : selected[i].name = name

\* selected.filter(m => m.name !== name)
filterOut(selected, name) == SelectSeq(selected, LAMBDA m : m.name # name)

SelectorFrame == UNCHANGED <<planApi, courseCache, now, lookup, gradPlan,
                             editable, inputCourses, bulk>>

\* addMajor without the test of the length
addMajorUnbounded(major) ==
    /\ selectedMajors' = IF ~find(selectedMajors, major.name)
                         THEN Append(selectedMajors, major)
                         ELSE selectedMajors
    /\ UNCHANGED selectedMinors
    /\ SelectorFrame

addMajor(major) ==
    /\ selectedMajors' = IF Len(selectedMajors) < 3
                            /\ ~find(selectedMajors, major.name)
                         THEN Append(selectedMajors, major)
                         ELSE selectedMajors
    /\ UNCHANGED selectedMinors
    /\ SelectorFrame

removeMajor(majorName) ==
    /\ selectedMajors' = filterOut(selectedMajors, majorName)
    /\ UNCHANGED selectedMinors
    /\ SelectorFrame

addMinor(minor) ==
    /\ selectedMinors' = IF Len(selectedMinors) < 3
                            /\ ~find(selectedMinors, minor.name)
                         THEN Append(selectedMinors, minor)
                         ELSE selectedMinors
    /\ UNCHANGED selectedMajors
    /\ SelectorFrame

removeMinor(minorName) ==
    /\ selectedMinors' = filterOut(selectedMinors, minorName)
    /\ UNCHANGED selectedMajors
    /\ SelectorFrame

InitSelector ==
    /\ NoGeneration
    /\ CacheIdle
    /\ selectedMajors = <<>>
    /\ selectedMinors = <<>>
    /\ EditorIdle
    /\ InputIdle

NextSelector ==
    \/ \E name \in MajorNames : addMajor([name |-> name])
    \/ \E name \in MajorNames : removeMajor(name)
    \/ \E name \in MinorNames : addMinor([name |-> name])
    \/ \E name \in MinorNames : removeMinor(name)

SpecSelector == InitSelector /\ [][NextSelector]_vars

(***************************************************************************)
(* validateGraduationPlan (the plan-validation endpoint, unnamed/part_000) *)
(***************************************************************************)
HeavyLoadCredits == 20
GraduationCredits == 120
LongPlanSemesters == 8

\* the courses of the plan in the order of the walk, each with its semester
walk(sems) ==
    Flatten([i \in DOMAIN sems |->
                [j \in DOMAIN sems[i].courses |->
                    [course |-> sems[i].courses[j], semester |-> i]]])

\* the prerequisite walk with the courses of a semester counted as
\* completed only when the semester is over
RECURSIVE missingPrerequisitesByTerm(_, _, _)
missingPrerequisitesByTerm(sems, visits, done) ==
    IF visits = <<>> THEN <<>>
    ELSE LET visit == visits[1]
             before == {v.course.course_id :
                           v \in {w \in Range(walk(sems)) :
                                      w.semester < visit.semester}}
             unmetPrereqs == SelectSeq(visit.course.prerequisites,
                                       LAMBDA prereq : prereq \notin before)
         IN  (IF Len(unmetPrereqs) > 0
              THEN <<[kind |-> "Missing prerequisites",
                      course_id |-> visit.course.course_id,
                      semester |-> sems[visit.semester].semester,
                      year |-> sems[visit.semester].year,
                      unmet |-> unmetPrereqs]>>
              ELSE <<>>)
             \o missingPrerequisitesByTerm(sems, Tail(visits), done)

\* for (semester) for (course): the prerequisites not in completedCourses
\* are an error; then completedCourses.add(course.course_id)
RECURSIVE missingPrerequisites(_, _, _)
missingPrerequisites(sems, visits, done) ==
    IF visits = <<>> THEN <<>>
    ELSE LET visit == visits[1]
             unmetPrereqs == SelectSeq(visit.course.prerequisites,
                                       LAMBDA prereq : prereq \notin done)
         IN  (IF Len(unmetPrereqs) > 0
              THEN <<[kind |-> "Missing prerequisites",
                      course_id |-> visit.course.course_id,
                      semester |-> sems[visit.semester].semester,
                      year |-> sems[visit.semester].year,
                      unmet |-> unmetPrereqs]>>
              ELSE <<>>)
             \o missingPrerequisites(sems, Tail(visits),
                                     done \cup {visit.course.course_id})

RECURSIVE loadWarnings(_)
loadWarnings(sems) ==
    IF sems = <<>> THEN <<>>
    ELSE LET semester == sems[1]
         IN  (IF semester.totalCredits > HeavyLoadCredits
              THEN <<[kind |-> "Heavy course load", semester |-> semester.semester,
                      year |-> semester.year, credits |-> semester.totalCredits]>>
              ELSE <<>>)
             \o (IF semester.totalCredits < 12 /\ Len(semester.courses) > 0
                 THEN <<[kind |-> "Below full-time status",
                         semester |-> semester.semester, year |-> semester.year,
                         credits |-> semester.totalCredits]>>
                 ELSE <<>>)
             \o loadWarnings(Tail(sems))

validateGraduationPlan(p) ==
    LET prereqErrors == missingPrerequisites(p.semesters, walk(p.semesters), {})
        totalCredits == SumSeq([i \in DOMAIN p.semesters |->
                                   p.semesters[i].totalCredits])
        creditErrors == IF totalCredits < GraduationCredits
                        THEN <<[kind |-> "Insufficient total credits",
                                credits |-> totalCredits]>>
                        ELSE <<>>
    IN  [isValid |-> prereqErrors = <<>> /\ creditErrors = <<>>,
         errors |-> prereqErrors \o creditErrors,
         warnings |-> loadWarnings(p.semesters),
         suggestions |-> IF Len(p.semesters) > LongPlanSemesters
                         THEN <<"Consider taking summer courses">>
                         ELSE <<>>]

(***************************************************************************)
(* The plan editor, app/components/GradPlan.tsx (unnamed/part_001).  The   *)
(* id of a semester, season-year, is written <<season, year>>.             *)
(***************************************************************************)
MaxSemesters == 3       \* semesters the editor's plan is let grow to
CurrentYear == 2026     \* new Date().getFullYear()

semesterId(season, year) == <<season, year>>

UnknownId == semesterId("winter", 2024)

\* arr.findIndex(s => s.id === id), 0-based, -1 when absent
findIndex(sems, id) ==
    IF \E i \in DOMAIN sems : sems[i].id = id
    THEN (CHOOSE i \in DOMAIN sems :
              sems[i].id = id /\ \A j \in 1..(i - 1) : sems[j].id # id) - 1
    ELSE -1

\* courses.splice(index, 1): what is left
spliceOut(courses, index) ==
    SubSeq(courses, 1, index) \o SubSeq(courses, index + 2, Len(courses))

\* courses.splice(index, 0, course)
spliceIn(courses, index, course) ==
    LET at == IF index > Len(courses) THEN Len(courses) ELSE index
    IN  SubSeq(courses, 1, at) \o <<course>> \o SubSeq(courses, at + 1, Len(courses))

sumCredits(courses) == SumSeq([i \in DOMAIN courses |-> courses[i].credits])

sumTotals(sems) == SumSeq([i \in DOMAIN sems |-> sems[i].totalCredits])

EditorFrame == UNCHANGED <<planApi, courseCache, now, lookup, selectedMajors,
                           selectedMinors, editable, inputCourses, bulk>>

\* the move without the totals summed again
moveCourseStaleTotals(sems, sourceIndex, from, destIndex, to) ==
    LET movedCourse == sems[sourceIndex + 1].courses[from + 1]
        removed == [sems EXCEPT ![sourceIndex + 1].courses =
                                    spliceOut(@, from)]
    IN  [removed EXCEPT ![destIndex + 1].courses = spliceIn(@, to, movedCourse)]

\* the semesters after the move: the course leaves the source, enters the
\* destination, and both totals are summed again
moveCourse(sems, sourceIndex, from, destIndex, to) ==
    LET movedCourse == sems[sourceIndex + 1].courses[from + 1]
        removed == [sems EXCEPT ![sourceIndex + 1].courses =
                                    spliceOut(@, from)]
        added == [removed EXCEPT ![destIndex + 1].courses =
                                     spliceIn(@, to, movedCourse)]
    IN  [i \in DOMAIN added |->
            IF i \in {sourceIndex + 1, destIndex + 1}
            THEN [added[i] EXCEPT !.totalCredits = sumCredits(added[i].courses)]
            ELSE added[i]]

\* result.destination is <<>> for a drop outside every list
handleDragEnd(result) ==
    /\ LET source == result.source
           sourceIndex == findIndex(gradPlan.semesters, source.droppableId)
       IN  IF result.destination = <<>> \/ ~editable
           THEN UNCHANGED gradPlan
           ELSE LET destination == result.destination[1]
                    destIndex == findIndex(gradPlan.semesters,
                                           destination.droppableId)
                IN  IF /\ source.droppableId = destination.droppableId
                       /\ source.index = destination.index
                    THEN UNCHANGED gradPlan
                    ELSE IF sourceIndex = -1 \/ destIndex = -1
                    THEN UNCHANGED gradPlan
                    ELSE LET newSemesters ==
                                 moveCourse(gradPlan.semesters, sourceIndex,
                                            source.index, destIndex,
                                            destination.index)
                         IN  gradPlan' =
                                 [gradPlan EXCEPT
                                     !.semesters = newSemesters,
                                     !.totalCredits = sumTotals(newSemesters)]
    /\ EditorFrame

seasonOrder == <<"spring", "summer", "fall">>

\* addSemester that never moves on to the next year
addSemesterSameYear ==
    /\ Len(gradPlan.semesters) < MaxSemesters
    /\ IF ~editable THEN UNCHANGED gradPlan
       ELSE LET n == Len(gradPlan.semesters)
                lastSemester == gradPlan.semesters[n]
                currentSeasonIndex_ ==
                    indexOf(seasonOrder, toLowerCase(lastSemester.semester))
                newSeason ==
                    IF n = 0 THEN "fall"
                    ELSE IF currentSeasonIndex_ = Len(seasonOrder) - 1
                    THEN seasonOrder[1]
                    ELSE seasonOrder[currentSeasonIndex_ + 2]
                newYear == IF n = 0 THEN CurrentYear ELSE lastSemester.year
                newSemester == [id |-> semesterId(newSeason, newYear),
                                semester |-> newSeason, year |-> newYear,
                                courses |-> <<>>, totalCredits |-> 0]
            IN  gradPlan' = [gradPlan EXCEPT
                                !.semesters = Append(gradPlan.semesters, newSemester)]
    /\ EditorFrame

addSemester ==
    /\ Len(gradPlan.semesters) < MaxSemesters
    /\ IF ~editable THEN UNCHANGED gradPlan
       ELSE LET n == Len(gradPlan.semesters)
                lastSemester == gradPlan.semesters[n]
                currentSeasonIndex_ ==
                    indexOf(seasonOrder, toLowerCase(lastSemester.semester))
                newSeason ==
                    IF n = 0 THEN "fall"
                    ELSE IF currentSeasonIndex_ = Len(seasonOrder) - 1
                    THEN seasonOrder[1]
                    ELSE seasonOrder[currentSeasonIndex_ + 2]
                newYear ==
                    IF n = 0 THEN CurrentYear
                    ELSE IF currentSeasonIndex_ = Len(seasonOrder) - 1
                    THEN lastSemester.year + 1
                    ELSE lastSemester.year
                newSemester == [id |-> semesterId(newSeason, newYear),
                                semester |-> newSeason, year |-> newYear,
                                courses |-> <<>>, totalCredits |-> 0]
            IN  gradPlan' = [gradPlan EXCEPT
                                !.semesters = Append(gradPlan.semesters, newSemester)]
    /\ EditorFrame

removeSemester(id) ==
    /\ IF ~editable THEN UNCHANGED gradPlan
       ELSE LET newSemesters == SelectSeq(gradPlan.semesters,
                                          LAMBDA sem : sem.id # id)
            IN  gradPlan' = [gradPlan EXCEPT
                                !.semesters = newSemesters,
                                !.totalCredits = sumTotals(newSemesters)]
    /\ EditorFrame

\* the plans the editor is opened on: plans as the generator returns them,
\* each semester given the id of its term, and the plan of no initialPlan
EditorCourse(courseId, credits) == [course_id |-> courseId, credits |-> credits]

editorSemester(season, year, courses) ==
    [id |-> semesterId(season, year), semester |-> season, year |-> year,
     courses |-> courses, totalCredits |-> sumCredits(courses)]

EditorSemesterLists ==
    LET a == EditorCourse("MATH140", 4)
        b == EditorCourse("MATH141", 3)
        c == EditorCourse("ENGL101", 3)
    IN  {<<>>,
         <<editorSemester("fall", 2024, <<a, b>>)>>,
         <<editorSemester("fall", 2024, <<a>>),
           editorSemester("spring", 2025, <<b>>)>>,
         <<editorSemester("fall", 2024, <<a, c>>),
           editorSemester("summer", 2025, <<b>>)>>}

CompletedCreditsLoaded == {0, 3}

EditorPlans ==
    {[semesters |-> sems, totalCredits |-> sumTotals(sems) + done] :
        sems \in EditorSemesterLists, done \in CompletedCreditsLoaded}

DropIds == {semesterId(s, y) : s \in {"spring", "summer", "fall"},
                                y \in {2024, 2025, 2026}} \cup {UnknownId}

\* what the drag library reports: the list and position the course was
\* taken from, and the list and position it was dropped at, if any
DragResults ==
    LET ids == {gradPlan.semesters[i].id : i \in DOMAIN gradPlan.semesters}
        size(id) == IF id \in ids
                    THEN Len(gradPlan.semesters[findIndex(gradPlan.semesters, id) + 1].courses)
                    ELSE 0
        sources == {[droppableId |-> id, index |-> k] :
                       id \in ids, k \in 0..(MaxList)}
        places == {[droppableId |-> id, index |-> k] :
                      id \in ids \cup {UnknownId}, k \in 0..(MaxList + 1)}
    IN  {[source |-> src, destination |-> dst] :
            src \in {x \in sources : x.index < size(x.droppableId)}
                    \cup {[droppableId |-> UnknownId, index |-> 0]},
            dst \in {<<>>} \cup {<<x>> : x \in {y \in places :
                                                   y.index <= size(y.droppableId)}}}

InitEditor ==
    /\ NoGeneration
    /\ CacheIdle
    /\ SelectorIdle
    /\ gradPlan \in EditorPlans
    /\ editable \in BOOLEAN
    /\ InputIdle

NextEditor ==
    \/ \E result \in DragResults : handleDragEnd(result)
    \/ addSemester
    \/ \E id \in DropIds : removeSemester(id)

SpecEditor == InitEditor /\ [][NextEditor]_vars

(***************************************************************************)
(* app/components/CourseInput.tsx.  The component is controlled: what it   *)
(* hands to onCoursesChange is the completedCourses of its next render.    *)
(* The fields the user edits (the form of addCourse, the search results,   *)
(* the text of the bulk import) are the inputs of the handlers.            *)
(* processBulkInput keeps the completedCourses of the render it was        *)
(* started in; it is suspended in each await fetch.                        *)
(***************************************************************************)
MaxCourses == 2         \* completed courses the other handlers let the list grow to

InputCodes == {"ENGL101", "MATH140", "MATH141"}

Undefined == "undefined"

\* code => code.trim().toUpperCase(), on the pieces tried
trimToUpperCase(piece) ==
    CASE piece = "math140" -> "MATH140"
      [] piece = " MATH141 " -> "MATH141"
      [] piece = " " -> ""
      [] OTHER -> piece

\* /^[A-Z]{4}\d{3}[A-Z]?$/.test(code), on the codes tried
isCourseCode(code) == code \in {"ENGL101", "MATH140", "MATH141"}

\* the pieces of bulkInput.split(/[,\n\r]+/)
BulkInputs ==
    {<<>>, <<" ">>, <<"HIST">>, <<"math140">>, <<"MATH140", " MATH141 ">>,
     <<"MATH140", "HIST", "math140">>, <<"ENGL101", "MATH140">>}

parseCodes(pieces) ==
    SelectSeq([i \in DOMAIN pieces |-> trimToUpperCase(pieces[i])],
              LAMBDA code : Len(code) > 0 /\ isCourseCode(code))

some(courses, code) == \E i \in DOMAIN courses : courses[i].code = code

InputFrame == UNCHANGED <<planApi, courseCache, now, lookup, selectedMajors,
                          selectedMinors, gradPlan, editable>>

\* history of the import in flight: the codes the other handlers added to
\* the list, and took from it, since it started
noteAdded(code) ==
    IF bulk = <<>> THEN bulk
    ELSE <<[bulk[1] EXCEPT !.added = @ \cup {code}, !.removed = @ \ {code}]>>

noteRemoved(code, left) ==
    IF bulk = <<>> \/ some(left, code) THEN bulk
    ELSE <<[bulk[1] EXCEPT !.added = @ \ {code}, !.removed = @ \cup {code}]>>

addCourse(newCourse) ==
    /\ Len(inputCourses) < MaxCourses
    /\ IF newCourse.code # "" /\ newCourse.name # ""
       THEN /\ inputCourses' = Append(inputCourses, [code |-> newCourse.code])
            /\ bulk' = noteAdded(newCourse.code)
       ELSE UNCHANGED <<inputCourses, bulk>>
    /\ InputFrame

removeCourse(index) ==
    /\ index < Len(inputCourses)
    /\ LET left == SubSeq(inputCourses, 1, index)
                        \o SubSeq(inputCourses, index + 2, Len(inputCourses))
       IN  /\ inputCourses' = left
           /\ bulk' = noteRemoved(inputCourses[index + 1].code, left)
    /\ InputFrame

addCommonCourse(course) ==
    /\ Len(inputCourses) < MaxCourses
    /\ IF ~some(inputCourses, course.code)
       THEN /\ inputCourses' = Append(inputCourses, [code |-> course.code])
            /\ bulk' = noteAdded(course.code)
       ELSE UNCHANGED <<inputCourses, bulk>>
    /\ InputFrame

\* its button is disabled for a course the list holds
addSearchResult(course) ==
    /\ Len(inputCourses) < MaxCourses
    /\ ~some(inputCourses, course.code)
    /\ inputCourses' = Append(inputCourses, [code |-> course.code])
    /\ bulk' = noteAdded(course.code)
    /\ InputFrame

\* the first code from position i on that the list of the import's render
\* does not hold: the next fetch; past the end when there is none
nextFetch(courseCodes, i, completedAtStart) ==
    LET toFetchFrom == {k \in i..Len(courseCodes) :
                           ~some(completedAtStart, courseCodes[k])}
    IN  IF toFetchFrom = {} THEN Len(courseCodes) + 1
        ELSE CHOOSE k \in toFetchFrom : \A l \in toFetchFrom : k <= l

\* the import goes on with the new course pushed: to the next fetch, or to
\* its end, where it hands over the list of its render plus the new courses
bulkContinue(newCourses) ==
    LET import == bulk[1]
        i == nextFetch(import.courseCodes, import.i + 1, import.completedCourses)
    IN  IF i <= Len(import.courseCodes)
        THEN /\ bulk' = <<[import EXCEPT !.i = i, !.newCourses = newCourses]>>
             /\ UNCHANGED inputCourses
        ELSE /\ bulk' = <<>>
             /\ inputCourses' = import.completedCourses \o newCourses

processBulkInput(pieces) ==
    /\ bulk = <<>>
    /\ Len(inputCourses) <= MaxCourses
    /\ LET courseCodes == parseCodes(pieces)
           i == nextFetch(courseCodes, 1, inputCourses)
       IN  IF pieces \in {<<>>, <<" ">>} \/ i > Len(courseCodes)
           THEN UNCHANGED bulk
           ELSE bulk' = <<[completedCourses |-> inputCourses,
                           courseCodes |-> courseCodes, i |-> i,
                           newCourses |-> <<>>, added |-> {}, removed |-> {}]>>
    /\ UNCHANGED inputCourses
    /\ InputFrame

\* the fetch answered: the body of an answer of /api/courses has no field
\* code, so courseData.code is undefined
BulkFetchAnswers ==
    /\ bulk # <<>>
    /\ bulkContinue(Append(bulk[1].newCourses, [code |-> Undefined]))
    /\ InputFrame

\* the fetch threw: the course is pushed under the code of the batch
BulkFetchThrows ==
    /\ bulk # <<>>
    /\ bulkContinue(Append(bulk[1].newCourses,
                           [code |-> bulk[1].courseCodes[bulk[1].i]]))
    /\ InputFrame

InitInput ==
    /\ NoGeneration
    /\ CacheIdle
    /\ SelectorIdle
    /\ EditorIdle
    /\ inputCourses = <<>>
    /\ bulk = <<>>

NextInput ==
    \/ \E code \in {"", "MATH140"}, name \in {"", "Calculus I"} :
           addCourse([code |-> code, name |-> name])
    \/ \E index \in 0..(MaxCourses + 2) : removeCourse(index)
    \/ \E code \in {"ENGL101", "MATH140"} : addCommonCourse([code |-> code])
    \/ \E code \in {"MATH141"} : addSearchResult([code |-> code])
    \/ \E pieces \in BulkInputs : processBulkInput(pieces)
    \/ BulkFetchAnswers
    \/ BulkFetchThrows

SpecInput == InitInput /\ [][NextInput]_vars

(***************************************************************************)
(* Properties                                                              *)
(***************************************************************************)
InitialCompleted == {c.course_id : c \in Range(request.completedCourses)}

Succeeded == pc = "done" /\ response.status = 200

Plan == response.data[1]

\* checkSatisfiedRequirements has run and the request was not rejected
Collected == pc \in {"fetch", "plan", "assemble"} \/ Succeeded

Placed == {plannedCourses[i].course_id : i \in DOMAIN plannedCourses}

\* position in the horizon of the term a placement was assigned to
TermIndex(placement) ==
    CHOOSE i \in DOMAIN availableSemesters :
        semesterKey(availableSemesters[i]) = placement.plannedSemester

\* terms on the line spring < summer < fall < spring of the next year
AbsTerm(term) == term.year * 3 + indexOf(seasons, term.season)

TermOfAbs(n) == [season |-> seasons[(n % 3) + 1], year |-> n \div 3]

TargetBeforeStart ==
    AbsTerm(parseSemester(request.graduationTarget))
        < AbsTerm(parseSemester(request.startingSemester))

\* C1: every prerequisite of a placed course is in the initial completed set
\* or is placed in a strictly earlier term; never in the same term.
C1_PrerequisitesStrictlyEarlier ==
    \A i \in DOMAIN plannedCourses :
        \A p \in Range(plannedCourses[i].prerequisites) :
            \/ p \in InitialCompleted
            \/ \E j \in DOMAIN plannedCourses :
                  /\ plannedCourses[j].course_id = p
                  /\ TermIndex(plannedCourses[j]) < TermIndex(plannedCourses[i])

TermCredits(s) ==
    LET mine == SelectSeq(plannedCourses, LAMBDA c : TermIndex(c) = s)
    IN  SumSeq([i \in DOMAIN mine |-> mine[i].credits])

\* C2: in every term the credits of the courses placed there sum to at most
\* maxCreditsPerSemester.
C2_TermCreditsWithinCap ==
    \A s \in DOMAIN availableSemesters : TermCredits(s) <= maxCreditsPerSemester

\* the prerequisites the placer is to use for an identifier: those of its
\* record, none when the lookup gave no record (the stub has none)
ResolvedPrereqs(courseId) ==
    IF courseId \in DOMAIN courseInfo
    THEN Range(courseInfo[courseId].prerequisites)
    ELSE {}

\* C3: a course of an unsatisfied category is placed in the first term in
\* which, when the placer reaches it, its prerequisites are satisfied and the
\* term's running total is below the cap.
C3_PlacedWhenEligibleAndFeasible ==
    [][(/\ pc = "plan"
        /\ curCourse \notin completed
        /\ ResolvedPrereqs(curCourse) \subseteq completed
        /\ currentCredits < maxCreditsPerSemester)
       => \E i \in DOMAIN plannedCourses' :
             /\ plannedCourses'[i].course_id = curCourse
             /\ plannedCourses'[i].plannedSemester = semesterKey(curSemester)]_vars

ExpectedSequence(first, last) ==
    [i \in 1..(AbsTerm(last) - AbsTerm(first) + 1) |->
        TermOfAbs(AbsTerm(first) + i - 1)]

Fall2024 == [season |-> "fall", year |-> 2024]
Spring2026 == [season |-> "spring", year |-> 2026]

\* C4: for a target not before the start, generateSemesterSequence returns
\* exactly the terms from start through target, in increasing order, none
\* skipped, repeated or added; fall 2024 .. spring 2026 gives the five terms
\* fall 2024, spring 2025, summer 2025, fall 2025, spring 2026.
C4_SequenceIsStartThroughTarget ==
    (pc = "collect" /\ AbsTerm(startSemester) <= AbsTerm(targetSemester))
    => /\ availableSemesters = ExpectedSequence(startSemester, targetSemester)
       /\ availableSemesters[1] = startSemester
       /\ availableSemesters[Len(availableSemesters)] = targetSemester
       /\ \A i \in 1..(Len(availableSemesters) - 1) :
             AbsTerm(availableSemesters[i + 1]) = AbsTerm(availableSemesters[i]) + 1
       /\ (startSemester = Fall2024 /\ targetSemester = Spring2026)
          => availableSemesters =
                <<[season |-> "fall", year |-> 2024],
                  [season |-> "spring", year |-> 2025],
                  [season |-> "summer", year |-> 2025],
                  [season |-> "fall", year |-> 2025],
                  [season |-> "spring", year |-> 2026]>>

C4_Witness ==
    /\ pc = "collect"
    /\ startSemester = Fall2024
    /\ targetSemester = Spring2026
    /\ Len(availableSemesters) = 5

\* C5: when the target term precedes the start term the request fails and
\* no plan is returned.
C5_TargetBeforeStartFails ==
    (pc = "done" /\ TargetBeforeStart)
    => (~response.success /\ response.data = <<>>)

IsSatisfied(req) ==
    /\ req.courses # <<>>
    /\ Range(req.courses) \subseteq InitialCompleted

\* C6: checkSatisfiedRequirements marks a category satisfied iff its course
\* list is non-empty and every listed course is completed: the labels it
\* returns are those of exactly these categories, one entry per category, and
\* a category with an empty list adds no entry.
C6_SatisfiedIffNonEmptyAndAllCompleted ==
    Collected =>
        LET sat == SelectSeq(allRequirements, IsSatisfied)
        IN  /\ satisfiedRequirements = [i \in DOMAIN sat |-> sat[i].category]
            /\ Len(satisfiedRequirements)
                 <= Cardinality({i \in DOMAIN allRequirements :
                                    allRequirements[i].courses # <<>>})

C6_Witness ==
    /\ Collected
    /\ Len(allRequirements) = 2
    /\ Len(satisfiedRequirements) = 1
    /\ \E i \in DOMAIN allRequirements : allRequirements[i].courses = <<>>

\* C7: unmetRequirements lists a category's label exactly when none of its
\* courses is placed or in the initial completed set.
C7_UnmetIffNothingPlacedOrCompleted ==
    (Succeeded /\ ~TargetBeforeStart) =>
        LET nothing(req) == Range(req.courses) \cap (Placed \cup InitialCompleted) = {}
            unmet == SelectSeq(allRequirements, nothing)
        IN  Plan.unmetRequirements = [i \in DOMAIN unmet |-> unmet[i].category]

\* a required course that can never become eligible: it has a prerequisite
\* that is never completed or placed
NeverEligible(courseId) ==
    /\ courseId \notin InitialCompleted
    /\ \E p \in ResolvedPrereqs(courseId) : p \notin InitialCompleted \cup Placed

\* C8: a required course that never becomes eligible is never placed, the
\* generation still succeeds, and the label of its category is in
\* unmetRequirements.
C8_NeverEligibleIsUnmet ==
    /\ pc = "done" /\ Len(request.majors) > 0 => Succeeded
    /\ Succeeded =>
          \A r \in DOMAIN allRequirements :
              \A c \in Range(allRequirements[r].courses) :
                  NeverEligible(c) =>
                      /\ c \notin Placed
                      /\ includes(Plan.unmetRequirements,
                                  allRequirements[r].category)

\* C9: totalCredits of the plan is the sum of the returned semesters' totals
\* plus the credits of the initial completed courses.
C9_TotalCreditsIsPlacedPlusCompleted ==
    Succeeded =>
        Plan.totalCredits =
            SumSeq([i \in DOMAIN Plan.semesters |-> Plan.semesters[i].totalCredits])
            + SumSeq([i \in DOMAIN request.completedCourses |->
                         request.completedCourses[i].credits])

C9_Witness ==
    /\ Succeeded
    /\ request.completedCourses # <<>>
    /\ Plan.semesters # <<>>
    /\ Len(Plan.semesters) < Len(availableSemesters)
    /\ Plan.totalCredits > 3

\* C10: a required course whose lookup yields no record gets the stub record
\* (3 credits, no prerequisites), so the placer has a record for every
\* required course.
C10_StubWhenLookupYieldsNoRecord ==
    ((pc \in {"plan", "assemble"} \/ Succeeded) /\ ~TargetBeforeStart)
    => \A c \in Range(toFetch) :
          /\ c \in DOMAIN courseInfo
          /\ courseInfo[c].name = c => courseInfo[c] = stubRecord(c)

\* C11: with a non-empty majors list and well-formed terms the generation
\* always completes and returns a plan, whatever each lookup gave (a record,
\* no record, an exception): it never stops half-way and never ends in an
\* error answer.
C11_LookupFailuresNeverAbort ==
    Len(request.majors) > 0 =>
        /\ pc = "done" => (Succeeded /\ Len(response.data) = 1)
        /\ pc # "done" => ENABLED Next

C11_Witness ==
    /\ Succeeded
    /\ ~TargetBeforeStart
    /\ \E c \in Range(toFetch) : c \notin DOMAIN courseInfo
    /\ \E c \in Range(toFetch) :
          c \in DOMAIN courseInfo /\ courseInfo[c] = stubRecord(c)

\* C12: a request whose majors list is missing or empty is answered with the
\* validation error before the sequencer, the satisfaction check, a lookup or
\* the placer has run, and no plan is returned.
C12_NoMajorsRejectedBeforeGeneration ==
    Len(request.majors) = 0 =>
        /\ pc \in {"handler", "done"}
        /\ pc = "done" => response = [status |-> 400, success |-> FALSE, data |-> <<>>]
        /\ startSemester.season = "" /\ targetSemester.season = ""
        /\ semesters = <<>> /\ availableSemesters = <<>>
        /\ allRequirements = <<>> /\ satisfiedRequirements = <<>>
        /\ toFetch = <<>> /\ DOMAIN courseInfo = {}
        /\ plannedCourses = <<>>

C12_Witness ==
    /\ pc = "done"
    /\ Len(request.majors) = 0
    /\ Len(request.minors) > 0
    /\ response.status = 400

\* C13: a request whose maxCreditsPerSemester is zero or negative is rejected
\* as a validation failure and never answered with a plan.
C13_NonPositiveCapRejected ==
    (pc = "done" /\ maxCreditsPerSemester <= 0 /\ ~TargetBeforeStart)
    => (~response.success /\ response.data = <<>>)

\* C16: a course id appears at most once across the initial completed
\* courses and the placed courses: no two placements carry the same id, no
\* placement carries the id of an initially completed course, and the same
\* holds of the course rows of the returned semesters.
PlanRows == Flatten([s \in DOMAIN Plan.semesters |-> Plan.semesters[s].courses])

C16_EachCourseAtMostOnce ==
    /\ \A i, j \in DOMAIN plannedCourses :
          plannedCourses[i].course_id = plannedCourses[j].course_id => i = j
    /\ \A i \in DOMAIN plannedCourses :
          plannedCourses[i].course_id \notin InitialCompleted
    /\ Succeeded =>
          /\ \A i, j \in DOMAIN PlanRows :
                PlanRows[i].course_id = PlanRows[j].course_id => i = j
          /\ \A i \in DOMAIN PlanRows :
                PlanRows[i].course_id \notin InitialCompleted

\* a placed course is listed twice over the categories that are planned, and
\* one of these categories also lists a completed course
C16_Witness ==
    /\ Succeeded
    /\ \E c \in Placed :
          /\ Cardinality({<<r, k>> \in (DOMAIN remainingRequirements) \X (1..MaxList) :
                 /\ k <= Len(remainingRequirements[r].courses)
                 /\ remainingRequirements[r].courses[k] = c}) >= 2
          /\ c \in {PlanRows[i].course_id : i \in DOMAIN PlanRows}
    /\ \E r \in DOMAIN remainingRequirements :
          Range(remainingRequirements[r].courses) \cap InitialCompleted # {}

\* C19: categories that share a label are filtered independently: the
\* placement input is the list of all categories without exactly those that
\* are themselves satisfied, so an unsatisfied category stays in it even when
\* another category with its label is satisfied.
C19_SameLabelCategoriesIndependent ==
    (Collected /\ ~TargetBeforeStart /\ maxCreditsPerSemester > 0) =>
        remainingRequirements =
            SelectSeq(allRequirements, LAMBDA req : ~IsSatisfied(req))

\* the (label, course) pairs of the placement input in visiting order
VisitOrder ==
    Flatten([r \in DOMAIN remainingRequirements |->
                [k \in DOMAIN remainingRequirements[r].courses |->
                    <<remainingRequirements[r].category,
                      remainingRequirements[r].courses[k]>>]])

RECURSIVE IsSubsequence(_, _)
IsSubsequence(s, t) ==
    IF s = <<>> THEN TRUE
    ELSE IF t = <<>> THEN FALSE
    ELSE IF Head(s) = Head(t) THEN IsSubsequence(Tail(s), Tail(t))
    ELSE IsSubsequence(s, Tail(t))

PlacedIn(s) ==
    {plannedCourses[i].course_id :
        i \in {j \in DOMAIN plannedCourses : TermIndex(plannedCourses[j]) = s}}

\* completed at the start of term s: initially completed or placed earlier
DoneBefore(s) ==
    InitialCompleted \cup
    {plannedCourses[i].course_id :
        i \in {j \in DOMAIN plannedCourses : TermIndex(plannedCourses[j]) < s}}

\* the placements follow the visiting order: terms never go back, and the
\* placements of one term are met in this order in the placement input
PlacementsFollowVisitOrder ==
    /\ Collected =>
          allRequirements =
              Flatten([i \in DOMAIN request.majors |-> request.majors[i].requirements])
              \o Flatten([i \in DOMAIN request.minors |-> request.minors[i].requirements])
    /\ \A i, j \in DOMAIN plannedCourses :
          i < j => TermIndex(plannedCourses[i]) <= TermIndex(plannedCourses[j])
    /\ \A s \in DOMAIN availableSemesters :
          LET mine == SelectSeq(plannedCourses,
                          LAMBDA c : c.plannedSemester = semesterKey(availableSemesters[s]))
          IN  IsSubsequence([i \in DOMAIN mine |->
                                <<mine[i].satisfies[1], mine[i].course_id>>],
                            VisitOrder)
    /\ Succeeded =>
          /\ \A a, b \in DOMAIN Plan.semesters :
                a < b => AbsTerm([season |-> Plan.semesters[a].semester,
                                  year |-> Plan.semesters[a].year])
                         < AbsTerm([season |-> Plan.semesters[b].semester,
                                    year |-> Plan.semesters[b].year])
          /\ \A a \in DOMAIN Plan.semesters :
                IsSubsequence([i \in DOMAIN Plan.semesters[a].courses |->
                                  <<Plan.semesters[a].courses[i].satisfies[1],
                                    Plan.semesters[a].courses[i].course_id>>],
                              VisitOrder)

\* when a course is about to be placed, every course met earlier in this term
\* that was a candidate and eligible at the start of the term is placed in it
EarlierEligiblePlacedFirst ==
    (/\ pc = "plan"
     /\ curCourse \notin completed
     /\ curCourse \in DOMAIN courseInfo
     /\ ResolvedPrereqs(curCourse) \subseteq completed
     /\ currentCredits < maxCreditsPerSemester)
    => \A r \in DOMAIN remainingRequirements :
          \A k \in DOMAIN remainingRequirements[r].courses :
              LET earlier == remainingRequirements[r].courses[k]
              IN  (/\ PosLess(<<semIdx, r, k>>, <<semIdx, reqIdx, courseIdx>>)
                   /\ earlier \notin DoneBefore(semIdx)
                   /\ ResolvedPrereqs(earlier) \subseteq DoneBefore(semIdx))
                  => earlier \in PlacedIn(semIdx)

\* C20: placements follow the tie-break order: terms in sequence order, in a
\* term the categories in the caller's order (majors' before minors'), in a
\* category the courses in declaration order; of the eligible courses that
\* compete for a term's capacity the earlier one is placed first, and each
\* returned semester lists its courses in this order.
C20_PlacementFollowsTieBreakOrder ==
    PlacementsFollowVisitOrder /\ EarlierEligiblePlacedFirst

\* credits placed in the term of placement i before placement i was made
RunningTotalBefore(i) ==
    SumSeq([j \in 1..(i - 1) |->
               IF plannedCourses[j].plannedSemester = plannedCourses[i].plannedSemester
               THEN plannedCourses[j].credits
               ELSE 0])

\* a course is added to a term only while the term's total is below the cap
PlacedOnlyBelowCap ==
    \A i \in DOMAIN plannedCourses :
        RunningTotalBefore(i) < maxCreditsPerSemester

\* cap 3 and two eligible 3-credit courses listed first: one is placed in the
\* first term and nothing else is, the other is placed in the second term
TwoCoursesOfThreeCredits ==
    (/\ Succeeded
     /\ maxCreditsPerSemester = 3
     /\ Len(availableSemesters) >= 2
     /\ remainingRequirements # <<>>
     /\ Len(remainingRequirements[1].courses) = 2
     /\ \A k \in 1..2 :
           LET c == remainingRequirements[1].courses[k]
           IN  /\ c \notin InitialCompleted
               /\ c \in DOMAIN courseInfo
               /\ courseInfo[c].credits = 3
               /\ courseInfo[c].prerequisites = <<>>
     /\ remainingRequirements[1].courses[1] # remainingRequirements[1].courses[2])
    => /\ PlacedIn(1) = {remainingRequirements[1].courses[1]}
       /\ remainingRequirements[1].courses[2] \in PlacedIn(2)

\* a course the capacity break passed over is placed at the first later visit
\* that finds its prerequisites completed and the term below the cap
DeferredPlacedWhenRoom ==
    (/\ pc = "plan"
     /\ curCourse \in deferred
     /\ curCourse \notin completed
     /\ ResolvedPrereqs(curCourse) \subseteq completed
     /\ currentCredits < maxCreditsPerSemester)
    => /\ Len(plannedCourses') = Len(plannedCourses) + 1
       /\ plannedCourses'[Len(plannedCourses')].course_id = curCourse
       /\ plannedCourses'[Len(plannedCourses')].plannedSemester
              = semesterKey(curSemester)

\* C18: in a term a course is placed only while the running total before it
\* is below the cap, nothing is placed once the total has reached the cap, a
\* course passed over for capacity is placed in the next term where it is
\* eligible and there is room, and with cap 3 two eligible 3-credit courses
\* go to the first and the second term.
C18_CapacityRuleAndDeferral ==
    /\ [](PlacedOnlyBelowCap /\ TwoCoursesOfThreeCredits)
    /\ [][DeferredPlacedWhenRoom]_vars

\* C14: generation is deterministic and stateless: an invocation that
\* follows other invocations and has the request and the lookup results of
\* the first one answers exactly what the first one answered (status and the
\* whole plan: semesters, course order, totals, warnings, unmetRequirements).
C14_SameRequestSameLookupsSamePlan ==
    (/\ pc = "done"
     /\ run > 1
     /\ request = pastRuns[1].request
     /\ lookups = pastRuns[1].lookups)
    => response = pastRuns[1].response

\* the third invocation repeats the first, which placed a course, after an
\* invocation with another request that placed a course too
C14_Witness ==
    /\ pc = "done"
    /\ run = 3
    /\ lookups = pastRuns[1].lookups
    /\ Succeeded
    /\ Len(Plan.semesters) > 0
    /\ pastRuns[2].request # request
    /\ pastRuns[2].response.status = 200
    /\ Len(pastRuns[2].response.data[1].semesters) > 0

\* the invocations of the pair: the running one and the suspended one
Invocations == {frame} \cup Range(other)

\* C15: two invocations whose awaits on catalog lookups interleave in any
\* order do not interact: an invocation of the pair that has the request and
\* the lookup results of the invocation that ran alone answers exactly what
\* that one answered.
C15_ConcurrentAsAlone ==
    run = 2 =>
        \A inv \in Invocations :
            (/\ inv.pc = "done"
             /\ inv.request = pastRuns[1].request
             /\ inv.lookups = pastRuns[1].lookups)
            => inv.response = pastRuns[1].response

\* an invocation has ended with a plan that places a course, as when alone,
\* while the other one, with another request, is suspended at a lookup
C15_Witness ==
    /\ run = 2
    /\ pc = "done"
    /\ request = pastRuns[1].request
    /\ lookups = pastRuns[1].lookups
    /\ Succeeded
    /\ Len(Plan.semesters) > 0
    /\ other[1].pc = "fetch"
    /\ other[1].request # request

\* Reading a CSV text back: a line feed ends a record and a comma ends a
\* field when an even number of double quotes precedes it; a field that
\* starts with a quote loses its outer quotes, and its doubled quotes stand
\* for one quote each.
separators(text, separator) ==
    {i \in DOMAIN text :
        /\ text[i] = separator
        /\ Cardinality({j \in 1..(i - 1) : text[j] = Quote}) % 2 = 0}

split(text, separator) ==
    LET cuts == separators(text, separator)
        n == Cardinality(cuts)
        cut(k) == IF k = 0 THEN 0
                  ELSE IF k = n + 1 THEN Len(text) + 1
                  ELSE CHOOSE p \in cuts : Cardinality({q \in cuts : q < p}) = k - 1
    IN  [k \in 1..(n + 1) |-> SubSeq(text, cut(k - 1) + 1, cut(k) - 1)]

RECURSIVE undouble(_)
undouble(value) ==
    IF value = <<>> THEN <<>>
    ELSE IF Len(value) >= 2 /\ value[1] = Quote /\ value[2] = Quote
    THEN <<Quote>> \o undouble(SubSeq(value, 3, Len(value)))
    ELSE <<value[1]>> \o undouble(Tail(value))

unquote(field) ==
    IF field # <<>> /\ field[1] = Quote
    THEN undouble(SubSeq(field, 2, Len(field) - 1))
    ELSE field

parseCSV(text) ==
    LET lines == split(text, Newline)
    IN  [r \in DOMAIN lines |->
            LET fields == split(lines[r], Comma)
            IN  [f \in DOMAIN fields |-> unquote(fields[f])]]

\* the number a field of decimal digits denotes, -1 for any other field
parseDigits(field) ==
    IF field # <<>> /\ \A i \in DOMAIN field : field[i] \in Range(DigitChars)
    THEN parseInt([i \in DOMAIN field |-> indexOf(DigitChars, field[i])])
    ELSE -1

isTotalRow(record) ==
    /\ Len(record) = 2
    /\ record[1] # <<>>
    /\ record[1][1] = "# "
    /\ record[1][Len(record[1])] = " Total Credits:"

\* neither an empty row, nor a header row, nor a row that starts with '#'
isDataRow(record) ==
    /\ record # << <<>> >>
    /\ record[1] # <<"Semester">>
    /\ ~(record[1] # <<>> /\ record[1][1] \in
            {"# ", "# Graduation Plan Summary", "# Total Credits: ",
             "# Completion Date: ", "# Majors: ", "# Minors: "})

readCourse(record) ==
    IF Len(record) >= 5
    THEN [semester |-> record[1], year |-> parseDigits(record[2]),
          course_id |-> record[3], credits |-> parseDigits(record[5])]
    ELSE [semester |-> <<>>, year |-> -1, course_id |-> <<>>, credits |-> -1]

\* the data rows grouped by the total row that follows them
RECURSIVE readRows(_, _, _)
readRows(records, courses, sems) ==
    IF records = <<>> THEN sems
    ELSE IF isTotalRow(Head(records))
    THEN readRows(Tail(records), <<>>,
                  Append(sems, [courses |-> courses,
                                totalCredits |-> parseDigits(Head(records)[2])]))
    ELSE IF isDataRow(Head(records))
    THEN readRows(Tail(records), Append(courses, readCourse(Head(records))), sems)
    ELSE readRows(Tail(records), courses, sems)

ExportedPlan == exportRequest[1].graduationPlan[1]

ReturnedTerm(sem) == [season |-> sem.semester, year |-> sem.year]

\* where a course id occurs in the returned semesters: <<semester, position>>
Occurrences(courseId) ==
    {ij \in (DOMAIN Plan.semesters) \X (1..Len(plannedCourses)) :
        /\ ij[2] \in DOMAIN Plan.semesters[ij[1]].courses
        /\ Plan.semesters[ij[1]].courses[ij[2]].course_id = courseId}

\* C21: the returned semesters list has no semester without courses, its
\* terms are strictly increasing, every placed course is in exactly one
\* returned semester, the one of its assigned term, and each semester's
\* totalCredits is the sum of the credits of its courses.
C21_ReturnedSemestersSparseAndConsistent ==
    Succeeded =>
        LET sems == Plan.semesters
        IN  /\ \A i \in DOMAIN sems : Len(sems[i].courses) > 0
            /\ \A i, j \in DOMAIN sems :
                   i < j => AbsTerm(ReturnedTerm(sems[i])) < AbsTerm(ReturnedTerm(sems[j]))
            /\ \A k \in DOMAIN plannedCourses :
                   /\ Cardinality(Occurrences(plannedCourses[k].course_id)) = 1
                   /\ \A ij \in Occurrences(plannedCourses[k].course_id) :
                          semesterKey(ReturnedTerm(sems[ij[1]]))
                              = plannedCourses[k].plannedSemester
            /\ \A i \in DOMAIN sems :
                   sems[i].totalCredits
                       = SumSeq([j \in DOMAIN sems[i].courses |->
                                    sems[i].courses[j].credits])

\* a horizon of two terms whose second term got no course and is dropped,
\* the first being returned with two courses
C21_Witness ==
    /\ Succeeded
    /\ Len(availableSemesters) = 2
    /\ Len(Plan.semesters) = 1
    /\ Len(Plan.semesters[1].courses) = 2
    /\ Plan.semesters[1].totalCredits = 4

(***************************************************************************)
(* Warnings                                                                *)
(***************************************************************************)
\* the warnings of a kind given for the term at position s of the horizon
WarningsFor(kind, s) ==
    {i \in DOMAIN Plan.warnings :
        /\ Plan.warnings[i].kind = kind
        /\ Plan.warnings[i].semester = availableSemesters[s].season
        /\ Plan.warnings[i].year = availableSemesters[s].year}

PlacedInTerm(s) == {i \in DOMAIN plannedCourses : TermIndex(plannedCourses[i]) = s}

WarningsFollowTotals ==
    Succeeded =>
        /\ \A s \in DOMAIN availableSemesters :
               /\ Cardinality(WarningsFor("Overloaded", s))
                      = IF TermCredits(s) > maxCreditsPerSemester THEN 1 ELSE 0
               /\ Cardinality(WarningsFor("Under full-time status", s))
                      = IF PlacedInTerm(s) # {} /\ TermCredits(s) < 12
                        THEN 1 ELSE 0
        /\ \A i \in DOMAIN Plan.warnings :
               \E s \in DOMAIN availableSemesters :
                   /\ i \in WarningsFor("Overloaded", s)
                            \cup WarningsFor("Under full-time status", s)
                   /\ Plan.warnings[i].credits = TermCredits(s)

\* the step that assembles the plan answers 200 with it, warnings or not
WarningsAreAdvisory ==
    pc = "assemble" =>
        /\ response'.status = 200
        /\ response'.success
        /\ Len(response'.data) = 1
        /\ response'.data[1].semesters
               = SelectSeq(buildSemesters(availableSemesters, plannedCourses),
                           LAMBDA sem : Len(sem.courses) > 0)

\* C22: the warnings list holds an overload warning for exactly the terms
\* whose total exceeds maxCreditsPerSemester and an under-full-time warning
\* for exactly the terms with at least one course and a total below 12, and
\* nothing else; a plan with warnings is returned like any other.
C22_WarningsFollowTotalsAndAreAdvisory ==
    /\ []WarningsFollowTotals
    /\ [][WarningsAreAdvisory]_vars

\* a returned plan of one term of 15 credits under a cap of 13: overloaded,
\* and not under full-time status
C22_Witness ==
    /\ Succeeded
    /\ maxCreditsPerSemester = 13
    /\ Len(Plan.semesters) = 1
    /\ Plan.semesters[1].totalCredits = 15
    /\ Len(Plan.warnings) = 1
    /\ Plan.warnings[1].kind = "Overloaded"

(***************************************************************************)
(* The course cache                                                        *)
(***************************************************************************)
Age(cache, courseId) == now - cache[courseId].timestamp

\* the handler h has dealt with a request in this step
Handled(h) == lookup'[h] # lookup[h]

\* an answer from the cache is given only from an entry younger than 30
\* minutes, and it is that entry's data
ServedOnlyWhenYoung ==
    \A h \in Handlers :
        (Handled(h) /\ lookup'[h].pc = "done" /\ lookup'[h].status = 200
         /\ lookup'[h].from = "cache")
        => /\ lookup'[h].courseId \in DOMAIN courseCache
           /\ Age(courseCache, lookup'[h].courseId) < CACHE_DURATION
           /\ lookup'[h].data = courseCache[lookup'[h].courseId].data

\* a request for a course whose entry is absent or 30 minutes old or older
\* starts a fetch; a fetch that returns puts its result in the cache with
\* the time of its return
MissFetchesAndReplaces ==
    \A h \in Handlers :
        /\ (/\ Handled(h)
            /\ lookup[h].pc # "fetching"
            /\ lookup'[h].pc # "idle"
            /\ "courseId" \in DOMAIN lookup'[h]
            /\ \/ lookup'[h].courseId \notin DOMAIN courseCache
               \/ Age(courseCache, lookup'[h].courseId) >= CACHE_DURATION)
           => lookup'[h].pc = "fetching"
        /\ (/\ Handled(h)
            /\ lookup[h].pc = "fetching"
            /\ lookup'[h].status = 200)
           => /\ lookup'[h].from = "fetch"
              /\ lookup[h].courseId \in DOMAIN courseCache'
              /\ courseCache'[lookup[h].courseId]
                     = [data |-> lookup'[h].data, timestamp |-> now]

\* after the cleanup pass, which follows every fetch that returned, no entry
\* is older than 30 minutes
CleanupLeavesNoOldEntry ==
    (\E h \in Handlers :
        Handled(h) /\ lookup[h].pc = "fetching" /\ lookup'[h].status = 200)
    => \A courseId \in DOMAIN courseCache' :
           Age(courseCache', courseId) <= CACHE_DURATION

\* C23: under any interleaving of the handler's invocations a request is
\* answered from the cache only when the entry of its course is younger than
\* 30 minutes, an absent or expired entry always starts a fetch whose result
\* replaces the entry with a new timestamp, and after a cleanup pass no
\* entry older than 30 minutes is left.
C23_CacheEnforcesTTL ==
    [][ServedOnlyWhenYoung /\ MissFetchesAndReplaces /\ CleanupLeavesNoOldEntry]_vars

\* one invocation was answered from the cache, the entry has since turned
\* 30 minutes old, and the other invocation is fetching the same course
C23_Witness ==
    \E h, g \in Handlers :
        /\ lookup[h].pc = "done"
        /\ lookup[h].status = 200
        /\ lookup[h].from = "cache"
        /\ lookup[g].pc = "fetching"
        /\ lookup[g].courseId = lookup[h].courseId
        /\ lookup[h].courseId \in DOMAIN courseCache
        /\ Age(courseCache, lookup[h].courseId) = CACHE_DURATION

(***************************************************************************)
(* The selection of majors and minors                                      *)
(***************************************************************************)
AtMostThreeDistinct(selected) ==
    /\ Len(selected) <= 3
    /\ \A i, j \in DOMAIN selected :
           selected[i].name = selected[j].name => i = j

\* a step that changes a selection either removes every entry of one name
\* or appends one entry whose name was not selected, to fewer than three
ChangesAsAllowed(before, after) ==
    \/ after = before
    \/ \E name \in MajorNames \cup MinorNames :
           find(before, name) /\ after = filterOut(before, name)
    \/ /\ Len(before) < 3
       /\ Len(after) = Len(before) + 1
       /\ SubSeq(after, 1, Len(before)) = before
       /\ ~find(before, after[Len(after)].name)

\* C24: from an empty selection, after any sequence of adds and removes the
\* selected majors (and the selected minors) are at most 3 and have distinct
\* names; an add that would break either bound leaves the selection as it is.
C24_AtMostThreeDistinctSelected ==
    /\ [](AtMostThreeDistinct(selectedMajors) /\ AtMostThreeDistinct(selectedMinors))
    /\ [][/\ ChangesAsAllowed(selectedMajors, selectedMajors')
          /\ ChangesAsAllowed(selectedMinors, selectedMinors')]_vars

\* three majors and three minors selected: every add is now refused
C24_Witness ==
    /\ Len(selectedMajors) = 3
    /\ Len(selectedMinors) = 3
    /\ ~find(selectedMajors, "Chemistry")
    /\ ~find(selectedMinors, "Philosophy")

(***************************************************************************)
(* Full placement                                                          *)
(***************************************************************************)
\* the courses to place: those of the categories not satisfied by the
\* completed courses, less the completed ones
ToPlace ==
    UNION {Range(allRequirements[i].courses) :
              i \in {j \in DOMAIN allRequirements : ~IsSatisfied(allRequirements[j])}}
        \ InitialCompleted

\* the courses to place can be put in an order in which every course comes
\* after those of its prerequisites that are to be placed
Acyclic ==
    \E order \in [1..Cardinality(ToPlace) -> ToPlace] :
        /\ Range(order) = ToPlace
        /\ \A i \in DOMAIN order :
               \A p \in Range(courseInfo[order[i]].prerequisites) :
                   p \in ToPlace => \E j \in 1..(i - 1) : order[j] = p

PlacementFeasible ==
    /\ maxCreditsPerSemester > 0
    /\ \A c \in ToPlace :
           /\ c \in DOMAIN courseInfo
           /\ courseInfo[c].credits > 0
           /\ Range(courseInfo[c].prerequisites) \subseteq InitialCompleted \cup ToPlace
    /\ Acyclic
    /\ Len(availableSemesters) >= Cardinality(ToPlace)

PlacedBeforeTerm(s) ==
    {plannedCourses[i].course_id :
        i \in {j \in DOMAIN plannedCourses : TermIndex(plannedCourses[j]) < s}}

\* C25: with a positive cap, a record with positive credits for every course
\* to place, acyclic prerequisites each completed or itself to place, and at
\* least as many terms as courses to place, every term that starts with a
\* course still to place places at least one, and every course to place is
\* placed by the end of the horizon.
C25_EveryCoursePlacedWithinHorizon ==
    (Succeeded /\ PlacementFeasible) =>
        /\ \A s \in DOMAIN availableSemesters :
               ToPlace \ PlacedBeforeTerm(s) # {} => PlacedInTerm(s) # {}
        /\ ToPlace \subseteq Placed

\* two courses to place, one the prerequisite of the other and listed after
\* it, placed in two terms under a cap of 3
C25_Witness ==
    /\ Succeeded
    /\ PlacementFeasible
    /\ Cardinality(ToPlace) = 2
    /\ Len(Plan.semesters) = 2
    /\ \E c \in ToPlace : courseInfo[c].prerequisites # <<>>
    /\ courseInfo[plannedCourses[1].course_id].credits = 3

(***************************************************************************)
(* The validator on generated plans                                        *)
(***************************************************************************)
\* C26: for a plan generated with no completed course, the validator reports
\* no 'Missing prerequisites' error: in the order it walks the returned
\* semesters and their courses, every prerequisite of a course comes before
\* the course.
C26_ValidatorFindsNoMissingPrerequisite ==
    (Succeeded /\ request.completedCourses = <<>>) =>
        \A i \in DOMAIN validateGraduationPlan(Plan).errors :
            validateGraduationPlan(Plan).errors[i].kind # "Missing prerequisites"

\* a generated plan, no course completed, in which a course with a
\* prerequisite stands in the same semester as its prerequisite, after it
C26_Witness ==
    /\ Succeeded
    /\ request.completedCourses = <<>>
    /\ Len(Plan.semesters) = 1
    /\ Len(Plan.semesters[1].courses) = 2
    /\ Plan.semesters[1].courses[2].prerequisites
           = <<Plan.semesters[1].courses[1].course_id>>

(***************************************************************************)
(* The plan editor                                                         *)
(***************************************************************************)
EditorIds(p) == [i \in DOMAIN p.semesters |-> p.semesters[i].id]

\* how often a course stands in the plan
CourseCount(p, course) ==
    Cardinality({ij \in (DOMAIN p.semesters) \X (1..(MaxList + 1)) :
                    /\ ij[2] \in DOMAIN p.semesters[ij[1]].courses
                    /\ p.semesters[ij[1]].courses[ij[2]] = course})

CoursesOfPlan(p) ==
    UNION {Range(p.semesters[i].courses) : i \in DOMAIN p.semesters}

TotalsConsistent ==
    \A i \in DOMAIN gradPlan.semesters :
        gradPlan.semesters[i].totalCredits
            = SumSeq([j \in DOMAIN gradPlan.semesters[i].courses |->
                         gradPlan.semesters[i].courses[j].credits])

\* a step that leaves the list of semesters as it is, as every drag does,
\* keeps every course as often as it was
DragKeepsCourses ==
    EditorIds(gradPlan') = EditorIds(gradPlan) =>
        \A course \in CoursesOfPlan(gradPlan) \cup CoursesOfPlan(gradPlan') :
            CourseCount(gradPlan', course) = CourseCount(gradPlan, course)

\* the courses of a semester change only when the editor is editable and
\* one course is taken from a position of a semester of the plan and put
\* at another position of a semester of the plan
OnlyMovesChangeCourses ==
    (/\ EditorIds(gradPlan') = EditorIds(gradPlan)
     /\ \E i \in DOMAIN gradPlan.semesters :
            gradPlan'.semesters[i].courses # gradPlan.semesters[i].courses)
    => /\ editable
       /\ \E i, j \in DOMAIN gradPlan.semesters :
             \E from \in 0..(Len(gradPlan.semesters[i].courses) - 1),
                to \in 0..Len(gradPlan.semesters[j].courses) :
                 /\ <<i, from>> # <<j, to>>
                 /\ gradPlan'.semesters
                        = moveCourse(gradPlan.semesters, i - 1, from, j - 1, to)

\* C27: after any sequence of drags on a plan with consistent semester
\* totals no course is lost or duplicated and every semester's totalCredits
\* is the sum of the credits of its courses; a drop with no destination, on
\* an unknown semester or at the same position changes nothing.
C27_DragKeepsCoursesAndTotals ==
    /\ []TotalsConsistent
    /\ [][DragKeepsCourses /\ OnlyMovesChangeCourses]_vars

\* both courses of the plan dragged out of the first semester into the second
C27_Witness ==
    /\ Len(gradPlan.semesters) = 2
    /\ gradPlan.semesters[1].courses = <<>>
    /\ gradPlan.semesters[1].totalCredits = 0
    /\ Len(gradPlan.semesters[2].courses) = 2
    /\ gradPlan.semesters[2].totalCredits = 7

\* the semester a course stands in
SemesterOf(p, course) ==
    {i \in DOMAIN p.semesters : course \in Range(p.semesters[i].courses)}

\* C28: a drag that moves a course from one semester to another leaves the
\* plan's totalCredits as it was, for a plan loaded from the generator, whose
\* totalCredits counts the completed courses too.
C28_DragKeepsAggregateCredits ==
    [][(/\ EditorIds(gradPlan') = EditorIds(gradPlan)
        /\ \E course \in CoursesOfPlan(gradPlan) :
               SemesterOf(gradPlan', course) # SemesterOf(gradPlan, course))
       => gradPlan'.totalCredits = gradPlan.totalCredits]_vars

EditorTerm(sem) == [season |-> toLowerCase(sem.semester), year |-> sem.year]

IncreasingDistinct ==
    \A i, j \in DOMAIN gradPlan.semesters :
        i < j => /\ AbsTerm(EditorTerm(gradPlan.semesters[i]))
                      < AbsTerm(EditorTerm(gradPlan.semesters[j]))
                 /\ gradPlan.semesters[i].id # gradPlan.semesters[j].id

\* a step that makes a non-empty list of semesters longer appends the term
\* after the last one, with no course
AppendsNextTerm ==
    (Len(gradPlan.semesters) > 0
     /\ Len(gradPlan'.semesters) > Len(gradPlan.semesters))
    => LET n == Len(gradPlan.semesters)
           next == TermOfAbs(AbsTerm(EditorTerm(gradPlan.semesters[n])) + 1)
       IN  gradPlan'.semesters
              = Append(gradPlan.semesters,
                       [id |-> semesterId(next.season, next.year),
                        semester |-> next.season, year |-> next.year,
                        courses |-> <<>>, totalCredits |-> 0])

\* C29: from a plan whose semesters are in strictly increasing term order
\* with ids season-year, after any sequence of addSemester and
\* removeSemester the semesters are still in strictly increasing term order
\* with distinct ids; addSemester on a non-empty plan appends exactly the
\* term after the last one (spring, summer, fall, spring of the next year).
C29_SemestersStayIncreasing ==
    /\ []IncreasingDistinct
    /\ [][AppendsNextTerm]_vars

\* from fall 2024 and summer 2025: fall 2025 appended, summer 2025 removed,
\* spring 2026 appended
C29_Witness ==
    /\ Len(gradPlan.semesters) = 3
    /\ EditorIds(gradPlan) = <<semesterId("fall", 2024), semesterId("fall", 2025),
                               semesterId("spring", 2026)>>

(***************************************************************************)
(* The bulk import of completed courses                                    *)
(***************************************************************************)
CodeCount(courses, code) ==
    Cardinality({i \in DOMAIN courses : courses[i].code = code})

ImportEnds == bulk # <<>> /\ bulk' = <<>>

\* C30: the bulk import only appends to the current list: a course another
\* handler added while the import's lookups were in flight is in the list
\* when the import ends, a course removed meanwhile is not, and the import
\* adds no code that the list already holds or that came earlier in the
\* batch.
C30_BulkImportOnlyAppends ==
    [][ImportEnds =>
          /\ \A code \in bulk[1].added : some(inputCourses', code)
          /\ \A code \in bulk[1].removed :
                 some(bulk[1].completedCourses, code) /\ ~some(inputCourses, code)
                     => ~some(inputCourses', code)
          /\ SubSeq(inputCourses', 1, Len(inputCourses)) = inputCourses
          /\ \A code \in InputCodes \cup {Undefined} :
                 CodeCount(inputCourses', code) > CodeCount(inputCourses, code)
                     => CodeCount(inputCourses', code) = 1]_vars

====
